---- MODULE Spec2Model ----
(***************************************************************************)
(* Verification model of the LSC lidar driver (lidar_client/LidarDriver.ts) *)
(* and of the multi-sensor simulator (lsc_server/simulator.ts).             *)
(*                                                                          *)
(* A byte string is a sequence of one-character strings; the two marker     *)
(* bytes 0x02 and 0x03 are the tokens STX and ETX.  Buffer offsets are      *)
(* 0-based as in the source; the helpers IndexOf and Subarray convert.      *)
(* Angles are kept as the raw fixed-point integers (degrees * 10000) and    *)
(* ranges as integer millimetres (metres * 1000).                           *)
(***************************************************************************)
EXTENDS Integers, Sequences, FiniteSets, TLC

VARIABLES
  \* ---- framing (SpecFrame)
  fFrames,      \* payloads the byte stream was built from
  fStream,      \* the byte stream on the wire
  dPos,         \* bytes of fStream already passed to the driver's handleData
  drvBuffer,    \* StandardLidarDriver.buffer
  drvPackets,   \* payloads handed to parsePacket, in order
  sPos,         \* bytes of fStream already passed to the simulator's handler
  simBuffer,    \* the `buffer` closure variable of handleConnection
  simPackets,   \* payloads handed to processCommand, in order
  \* ---- one driver connected to one simulated sensor (SpecCodec)
  cEntry,       \* the command-table entry the driver is asked to send
  cConnected,   \* StandardLidarDriver.connected
  cType,        \* the `type` sendCommand chose (<<>> before it has run)
  cWire,        \* bytes the driver has written with client.write
  cPos,         \* bytes of cWire the simulator's data handler has received
  cSimBuf,      \* the `buffer` closure variable of the connection
  cSim,         \* the fields of the LidarSimulator
  cParts,       \* `parts` of every command processCommand has processed
  kFrames,      \* every frame written to the driver's socket, with its origin
  kWire,        \* the bytes of those frames, as the driver's socket receives them
  kPos,         \* bytes of kWire already passed to handleData
  kDrvBuf,      \* StandardLidarDriver.buffer
  kScans,       \* the 'scan' events emitted, in order
  kErrors,      \* exceptions that left handleData
  kCtx,         \* `data` of the presentation layer's SensorContext (<<>> is null)
  \* ---- the simulator process with its sensors and connections (Spec)
  sims,         \* the LidarSimulator objects, by sensor
  socks,        \* the sockets: open or not, sensor, bytes in flight to the
                \*   simulator, framing buffer, frames written to the socket
  cmdLog,       \* per sensor, the commands processCommand has processed, by socket
  stopped,      \* per sensor: a SensorStop was processed or the last listener
                \*   disconnected, and no SensorStart has been processed since
  sent,         \* number of command frames clients have sent
  ticks,        \* number of firings of broadcast timers
  globalPhase,  \* the module variable globalPhase, in hundredths of a radian
  \* ---- the interface of one driver and its sensor (SpecApi)
  aListeners,   \* number of 'error' listeners registered on the driver
  aSock,        \* state of the driver's net.Socket
  aConnected,   \* StandardLidarDriver.connected
  aPromise,     \* state of the promise connect() returned
  aErrLog,      \* the 'error' events of the socket and what their handling did
  aDisconnected, \* number of 'disconnected' events emitted
  aCrashed,     \* an exception left an event handler uncaught
  aCalls,       \* the calls of initialize and configureScanRange, in order
  aWrote,       \* the frames sendCommand has written, with the call they belong to
  aPos,         \* bytes the simulator's data handler has received
  aSimBuf,      \* the `buffer` closure variable of the connection
  aSim,         \* the fields of the LidarSimulator
  aProcessed,   \* the commands processCommand has processed, with the window after each
  aScans,       \* header values of the scan frames broadcast to the driver
  \* ---- the range computation of one sample (SpecRay)
  rPose,        \* the pose of the sensor
  rDir,         \* the direction of the ray in the sensor's frame
  rObj,         \* the position of the obstacle in the room
  rGraze,       \* whether the doubles put a ray that touches the obstacle's
                \*   circle inside it (distToRay < objRadius in the source)
  rRuns,        \* the results of the runs of the computation, in order
  \* ---- one StandardLidarDriver over several connections (SpecLink)
  lSock,        \* the driver's socket: "idle", "open", "destroyed", "closed"
  lConnected,   \* StandardLidarDriver.connected
  lBuffer,      \* StandardLidarDriver.buffer
  lRecv,        \* for each connection so far, the bytes received on it
  lPackets,     \* for each connection so far, the payloads handed to parsePacket
  \* ---- the sensor registry of the web server (SpecRegistry)
  sensors,      \* the Map `sensors` as its entries in insertion order
  nextSensorId, \* the counter nextSensorId
  reqs          \* the POST /connect requests: where each is in its handler

frameVars == <<fFrames, fStream, dPos, drvBuffer, drvPackets, sPos, simBuffer, simPackets>>

codecVars == <<cEntry, cConnected, cType, cWire, cPos, cSimBuf, cSim, cParts,
               kFrames, kWire, kPos, kDrvBuf, kScans, kErrors, kCtx>>

sysVars == <<sims, socks, cmdLog, stopped, sent, ticks, globalPhase>>

apiVars == <<aListeners, aSock, aConnected, aPromise, aErrLog, aDisconnected, aCrashed,
             aCalls, aWrote, aPos, aSimBuf, aSim, aProcessed, aScans>>

rayVars == <<rPose, rDir, rObj, rGraze, rRuns>>

linkVars == <<lSock, lConnected, lBuffer, lRecv, lPackets>>

regVars == <<sensors, nextSensorId, reqs>>

vars == <<frameVars, codecVars, sysVars, apiVars, rayVars, linkVars, regVars>>

----------------------------------------------------------------------------
(* Bounds *)
MaxPayload == 2     \* longest payload of a frame in the framing stream
MaxFrames  == 2     \* most frames in a framing stream
MaxSamples == 2     \* most range samples in a scan frame that is built
MaxTicks   == 1     \* most scan frames written to the driver's socket
ChunkSize  == 11    \* a socket delivers this many bytes, or all that is pending
NumConns   == 2     \* sockets that can be connected to the simulator process
MaxCmds    == 2     \* most command frames sent to the simulator process
MaxBroadcasts == 2  \* most firings of broadcast timers
MaxBad     == 1     \* most frames without a DIST1 field written to the driver's socket
MaxCalls   == 2     \* most calls of initialize and configureScanRange on the driver
MaxPeerFrames == 2  \* most frames a peer that is not the simulator writes
MaxClock   == 1     \* most firings of the global clock
MaxStream  == 4     \* most bytes of a stream that is not made of frames
MaxRuns    == 2     \* most runs of the range computation on the same inputs
NumSensors == 2     \* sensors of SENSOR_CONFIGS the simulator process runs
MaxConnects == 2    \* most calls of connect on one driver
MaxRecv    == 3     \* most bytes received on one connection of that driver
NumReqs    == 3     \* POST /connect requests the web server handles

----------------------------------------------------------------------------
(* Bytes and buffers *)
STX == "STX"
ETX == "ETX"

PayloadBytes == {"a", "b"}

Min(a, b) == IF a < b THEN a ELSE b

\* Buffer.indexOf(value, byteOffset): first 0-based offset >= from, or -1
IndexOf(buf, b, from) ==
  LET hits == {i \in from..(Len(buf) - 1) : buf[i + 1] = b}
  IN IF hits = {} THEN -1 ELSE CHOOSE i \in hits : \A j \in hits : i <= j

\* Buffer.subarray(start, end): bytes at 0-based offsets start .. end-1
Subarray(buf, start, end) == SubSeq(buf, start + 1, end)

RECURSIVE Concat(_)
Concat(ss) == IF ss = <<>> THEN <<>> ELSE Head(ss) \o Concat(Tail(ss))

\* sequences over S of length 0..n
SeqsUpTo(S, n) == UNION {[1..k -> S] : k \in 0..n}

----------------------------------------------------------------------------
(* Strings of the protocol, as character sequences *)
SetAccessLevel == <<"S", "e", "t", "A", "c", "c", "e", "s", "s", "L", "e", "v", "e", "l">>
SensorStart == <<"S", "e", "n", "s", "o", "r", "S", "t", "a", "r", "t">>
SensorStop == <<"S", "e", "n", "s", "o", "r", "S", "t", "o", "p">>
SensorScanInfo == <<"S", "e", "n", "s", "o", "r", "S", "c", "a", "n", "I", "n", "f", "o">>
LSScanDataConfig == <<"L", "S", "S", "c", "a", "n", "D", "a", "t", "a", "C", "o", "n", "f", "i", "g">>
LSDIConfig == <<"L", "S", "D", "I", "C", "o", "n", "f", "i", "g">>
LSFConfig == <<"L", "S", "F", "C", "o", "n", "f", "i", "g">>
sMC == <<"s", "M", "C">>
sRC == <<"s", "R", "C">>
sWC == <<"s", "W", "C">>
sRA == <<"s", "R", "A">>
sWA == <<"s", "W", "A">>
sSN == <<"s", "S", "N">>
LidarData == <<"L", "i", "d", "a", "r", "D", "a", "t", "a">>
SimDevice == <<"S", "i", "m", "D", "e", "v", "i", "c", "e">>
v1_0 == <<"v", "1", ".", "0">>
OK == <<"O", "K">>
RSSI1 == <<"R", "S", "S", "I", "1">>
ScanDataConfig == <<"S", "c", "a", "n", "D", "a", "t", "a", "C", "o", "n", "f", "i", "g">>
DIST1 == <<"D", "I", "S", "T", "1">>
ScanData == <<"S", "c", "a", "n", "D", "a", "t", "a">>
Zero4 == <<"0", "0", "0", "0">>
Zero2 == <<"0", "0">>
One == <<"1">>
Comma == <<",">>
\* what String(undefined) and String(NaN) give
Undefined == <<"u", "n", "d", "e", "f", "i", "n", "e", "d">>
NaNStr == <<"N", "a", "N">>

\* String.prototype.includes
Includes(str, sub) ==
  \E i \in 1..(Len(str) - Len(sub) + 1) : SubSeq(str, i, i + Len(sub) - 1) = sub

\* String.prototype.startsWith
StartsWith(str, prefix) ==
  Len(prefix) <= Len(str) /\ SubSeq(str, 1, Len(prefix)) = prefix

\* String.prototype.split(','): the fields between the commas, "" gives [""]
RECURSIVE Split(_)
Split(str) ==
  LET commas == {i \in 1..Len(str) : str[i] = ","}
  IN IF commas = {} THEN <<str>>
     ELSE LET c == CHOOSE i \in commas : \A j \in commas : i <= j
          IN <<SubSeq(str, 1, c - 1)>> \o Split(SubSeq(str, c + 1, Len(str)))

\* Array.prototype.join(',')
RECURSIVE Join(_)
Join(parts) ==
  IF parts = <<>> THEN <<>>
  ELSE IF Len(parts) = 1 THEN parts[1]
  ELSE parts[1] \o Comma \o Join(Tail(parts))

\* parts[i] / fields[i] with a 0-based index; undefined outside the array
Field(parts, i) == IF i >= 0 /\ i < Len(parts) THEN parts[i + 1] ELSE Undefined

\* Array.prototype.indexOf / includes on an array of fields (0-based, -1)
FieldIndexOf(fields, f) ==
  LET hits == {i \in 0..(Len(fields) - 1) : fields[i + 1] = f}
  IN IF hits = {} THEN -1 ELSE CHOOSE i \in hits : \A j \in hits : i <= j

FieldsInclude(fields, f) == FieldIndexOf(fields, f) # -1

\* String.prototype.padStart(width, '0')
PadStart(str, width) ==
  IF Len(str) >= width THEN str ELSE [i \in 1..(width - Len(str)) |-> "0"] \o str

----------------------------------------------------------------------------
(* Numbers.  A JavaScript number that may exceed 2^31 - 1 (an unsigned 32-bit *)
(* value) is held as two 16-bit halves, value = hi * 65536 + lo, as parseInt  *)
(* and toString(16) see it; a number stored in a field is NaN or an integer.  *)
Half == 65536

\* a JavaScript number in a field or a record: NaN, or an integer value
Num(v) == [nan |-> FALSE, v |-> v]
NaNNum == [nan |-> TRUE, v |-> 0]

HexChars == <<"0", "1", "2", "3", "4", "5", "6", "7", "8", "9", "A", "B", "C", "D", "E", "F">>
LowerHexChars == <<"a", "b", "c", "d", "e", "f">>

IsHexChar(c) == (\E d \in 1..16 : HexChars[d] = c) \/ (\E d \in 1..6 : LowerHexChars[d] = c)

HexVal(c) ==
  IF \E d \in 1..16 : HexChars[d] = c
    THEN (CHOOSE d \in 1..16 : HexChars[d] = c) - 1
    ELSE (CHOOSE d \in 1..6 : LowerHexChars[d] = c) + 9

Wide(n) == [nan |-> FALSE, hi |-> n \div Half, lo |-> n % Half]
WideNaN == [nan |-> TRUE, hi |-> 0, lo |-> 0]

\* n >>> 0 (ToUint32) of a signed 32-bit integer
ToUint32(n) ==
  IF n < 0 THEN [nan |-> FALSE, hi |-> (n \div Half) + Half, lo |-> n % Half]
           ELSE Wide(n)

\* Number.prototype.toString(16).toUpperCase() of a non-negative integer
RECURSIVE HexStr(_)
HexStr(n) ==
  IF n < 16 THEN <<HexChars[n + 1]>>
  ELSE HexStr(n \div 16) \o <<HexChars[(n % 16) + 1]>>

HexStrWide(w) ==
  IF w.nan THEN NaNStr
  ELSE IF w.hi = 0 THEN HexStr(w.lo)
  ELSE HexStr(w.hi) \o PadStart(HexStr(w.lo), 4)

\* parseInt(str, 16): optional sign, then the longest hex-digit prefix
RECURSIVE ParseDigits(_, _, _)
ParseDigits(str, hi, lo) ==
  IF str = <<>> \/ ~IsHexChar(Head(str)) THEN [nan |-> FALSE, hi |-> hi, lo |-> lo]
  ELSE LET v == lo * 16 + HexVal(Head(str))
       IN ParseDigits(Tail(str), hi * 16 + (v \div Half), v % Half)

ParseInt16(str) ==
  LET neg  == str # <<>> /\ Head(str) = "-"
      body == IF str # <<>> /\ Head(str) \in {"-", "+"} THEN Tail(str) ELSE str
  IN IF body = <<>> \/ ~IsHexChar(Head(body)) THEN WideNaN
     ELSE LET p == ParseDigits(body, 0, 0)
          IN IF neg THEN Wide(-(p.hi * Half + p.lo)) ELSE p

\* the parsed value as a number (unsigned fields)
NumOf(w) == IF w.nan THEN NaNNum ELSE Num(w.hi * Half + w.lo)

\* mutant: the correction subtracts 0xFFFFFFFF instead of 0xFFFFFFFF + 1
Signed32_OffByOne(w) ==
  IF w.nan THEN NaNNum
  ELSE IF w.hi >= 32768 THEN Num((w.hi - Half) * Half + w.lo + 1)
  ELSE Num(w.hi * Half + w.lo)

\* x = parseInt(..); if (x > 0x7FFFFFFF) x -= 0xFFFFFFFF + 1
Signed32(w) ==
  IF w.nan THEN NaNNum
  ELSE IF w.hi >= 32768 THEN Num((w.hi - Half) * Half + w.lo)
  ELSE Num(w.hi * Half + w.lo)

\* toHex of the driver: (num >>> 0).toString(16).toUpperCase(); NaN >>> 0 is 0
drvToHex(num) == HexStrWide(IF num.nan THEN Wide(0) ELSE ToUint32(num.v))

\* toHex of the simulator: two's complement only for negatives, padded to 8
toHex(num) ==
  IF num.nan THEN PadStart(NaNStr, 8)
  ELSE PadStart(HexStrWide(IF num.v < 0 THEN ToUint32(num.v) ELSE Wide(num.v)), 8)

----------------------------------------------------------------------------
(* Framing: StandardLidarDriver.handleData and the simulator's data handler *)

\* the while loop of handleData, from a buffer and the packets found so far
RECURSIVE handleDataLoop(_, _)
handleDataLoop(buffer, packets) ==
  LET stxIndex == IndexOf(buffer, STX, 0)
  IN IF stxIndex = -1
       THEN [buffer |-> buffer, packets |-> packets]
       ELSE LET etxIndex == IndexOf(buffer, ETX, stxIndex)
            IN IF etxIndex # -1
                 THEN handleDataLoop(Subarray(buffer, etxIndex + 1, Len(buffer)),
                                     Append(packets, Subarray(buffer, stxIndex + 1, etxIndex)))
                 ELSE [buffer |-> buffer, packets |-> packets]

\* mutant: `if` in place of `while`, at most one frame is taken per call
handleData_OneFrame(buffer, chunk) ==
  LET all      == buffer \o chunk
      stxIndex == IndexOf(all, STX, 0)
      etxIndex == IF stxIndex = -1 THEN -1 ELSE IndexOf(all, ETX, stxIndex)
  IN IF etxIndex = -1
       THEN [buffer |-> all, packets |-> <<>>]
       ELSE [buffer |-> Subarray(all, etxIndex + 1, Len(all)),
             packets |-> <<Subarray(all, stxIndex + 1, etxIndex)>>]

\* mutant: the bytes retained from earlier chunks are not prepended
handleData_NoCarry(buffer, chunk) == handleDataLoop(chunk, <<>>)

handleData(buffer, chunk) == handleDataLoop(buffer \o chunk, <<>>)

\* the same loop in socket.on('data') of LidarSimulator.handleConnection
RECURSIVE onDataLoop(_, _)
onDataLoop(buffer, packets) ==
  LET stxIdx == IndexOf(buffer, STX, 0)
  IN IF stxIdx = -1
       THEN [buffer |-> buffer, packets |-> packets]
       ELSE LET etxIdx == IndexOf(buffer, ETX, stxIdx)
            IN IF etxIdx # -1
                 THEN onDataLoop(Subarray(buffer, etxIdx + 1, Len(buffer)),
                                 Append(packets, Subarray(buffer, stxIdx + 1, etxIdx)))
                 ELSE [buffer |-> buffer, packets |-> packets]

onData(buffer, data) == onDataLoop(buffer \o data, <<>>)

----------------------------------------------------------------------------
(* Command encoding: StandardLidarDriver.sendCommand *)

\* mutant: the write case of LSScanDataConfig is not told from the query
CommandType_NoWrite(rawCmd) ==
  IF Includes(rawCmd, SensorScanInfo) THEN sRC
  ELSE IF StartsWith(rawCmd, LSScanDataConfig) THEN sRC
  ELSE sMC

\* step 1 of sendCommand: the class tag `type`
CommandType(rawCmd) ==
  IF Includes(rawCmd, SensorScanInfo) THEN sRC
  ELSE IF StartsWith(rawCmd, LSScanDataConfig)
       THEN (IF Includes(rawCmd, Comma) THEN sWC ELSE sRC)
  ELSE sMC

\* mutant: the length counts the payload and one marker only
sendCommandPacket_ShortLen(rawCmd) ==
  LET payloadStr == Comma \o CommandType(rawCmd) \o Comma \o rawCmd
      totalLen   == Len(payloadStr) + 1
      lenStr     == PadStart(HexStr(totalLen), 4)
      packetStr  == lenStr \o payloadStr
  IN <<STX>> \o packetStr \o <<ETX>>

\* steps 2-5 of sendCommand: the bytes of packetBuf
sendCommandPacket(rawCmd) ==
  LET payloadStr == Comma \o CommandType(rawCmd) \o Comma \o rawCmd
      totalLen   == 1 + 4 + Len(payloadStr) + 1
      lenStr     == PadStart(HexStr(totalLen), 4)
      packetStr  == lenStr \o payloadStr
  IN <<STX>> \o packetStr \o <<ETX>>

\* the command string built by configureScanRange from the rounded raw angles
configureScanRangeCmd(startVal, endVal) ==
  Join(<<LSScanDataConfig, drvToHex(Num(startVal)), drvToHex(Num(endVal)), One, One, One>>)

----------------------------------------------------------------------------
(* The simulator: createPacket, timer, processCommand, broadcastScanData *)

\* len.toString(16).toUpperCase().padStart(4, '0')
lenStrOf(len) == PadStart(HexStr(len), 4)

createPacket(payload) ==
  LET fullPayload == Comma \o payload
      len         == Len(fullPayload) + 1
      packetStr   == lenStrOf(len) \o fullPayload
  IN <<STX>> \o packetStr \o <<ETX>>

\* LidarSimulator.config as constructed; angles are degrees * 10000
DefaultConfig ==
  [minAngle |-> Num(-450000), maxAngle |-> Num(2250000), resolution |-> Num(3330)]

\* SENSOR_CONFIGS (x, y in tenths of a metre)
SENSOR_CONFIGS ==
  <<[port |-> 8001, x |-> 5, y |-> 0, rotation |-> 0],
    [port |-> 8002, x |-> 0, y |-> -5, rotation |-> -90],
    [port |-> 8003, x |-> -5, y |-> 0, rotation |-> 180],
    [port |-> 8004, x |-> 0, y |-> 5, rotation |-> 90]>>

\* the fields of one LidarSimulator after construction.  scanInterval is the
\* handle of the interval timer (0 for null); timers is the set of interval
\* timers of this sensor that setInterval created and nothing has cleared.
NewSimulator(pose) ==
  [port |-> pose.port, pose |-> pose,
   sockets |-> <<>>, scanInterval |-> 0, timers |-> {}, scanCounter |-> 0,
   config |-> DefaultConfig]

\* mutant: a new connection leaves the sensor Idle until it sends SensorStart
handleConnection_Stops(sim, socket) ==
  [sim EXCEPT !.sockets = Append(@, socket),
              !.timers = @ \ {sim.scanInterval}, !.scanInterval = 0]

\* handleConnection(socket): the socket joins the listener array
handleConnection(sim, socket) == [sim EXCEPT !.sockets = Append(@, socket)]

\* mutant: the 'close' handler removes the socket and leaves the timer alone
onClose_NoStop(sim, socket) ==
  [sim EXCEPT !.sockets = SelectSeq(@, LAMBDA x : x # socket)]

\* setInterval: a handle different from every live timer
NewTimer(timers) == CHOOSE t \in 1..(Cardinality(timers) + 1) : t \notin timers

\* mutant: startScanning without the `if (this.scanInterval) return` guard
startScanning_NoGuard(sim) ==
  LET t == NewTimer(sim.timers)
  IN [sim EXCEPT !.scanInterval = t, !.timers = @ \cup {t}]

startScanning(sim) ==
  IF sim.scanInterval # 0 THEN sim
  ELSE LET t == NewTimer(sim.timers)
       IN [sim EXCEPT !.scanInterval = t, !.timers = @ \cup {t}]

\* mutant: stopping the scan also resets the scan counter
stopScanning_ResetsCounter(sim) ==
  IF sim.scanInterval # 0
    THEN [sim EXCEPT !.timers = @ \ {sim.scanInterval}, !.scanInterval = 0,
                     !.scanCounter = 0]
    ELSE sim

\* mutant: the handle is forgotten without clearInterval
stopScanning_NoClear(sim) == [sim EXCEPT !.scanInterval = 0]

stopScanning(sim) ==
  IF sim.scanInterval # 0
    THEN [sim EXCEPT !.timers = @ \ {sim.scanInterval}, !.scanInterval = 0]
    ELSE sim

\* mutant: one byte too many is stripped before the split
CommandParts_Strip5(packet) == Split(Subarray(packet, 5, Len(packet)))

\* socket.on('close') of handleConnection
onClose(sim, socket) ==
  LET left == [sim EXCEPT !.sockets = SelectSeq(@, LAMBDA x : x # socket)]
  IN IF Len(left.sockets) = 0 THEN stopScanning(left) ELSE left

\* msg.split(',') of processCommand: the packet without its 4 length digits
CommandParts(packet) == Split(Subarray(packet, 4, Len(packet)))

\* mutant: one argument field is enough for the window to be written
ApplyScanDataConfig_Len4(config, parts) ==
  IF Len(parts) >= 4
    THEN [config EXCEPT !.minAngle = Signed32(ParseInt16(Field(parts, 3))),
                        !.maxAngle = Signed32(ParseInt16(Field(parts, 4)))]
    ELSE config

\* the sWC branch of processCommand: the new config
ApplyScanDataConfig(config, parts) ==
  IF Len(parts) >= 5
    THEN [config EXCEPT !.minAngle = Signed32(ParseInt16(Field(parts, 3))),
                        !.maxAngle = Signed32(ParseInt16(Field(parts, 4)))]
    ELSE config

\* processCommand(socket, packet): the simulator afterwards and the frame
\* written to `socket`
processCommand(sim, packet) ==
  LET parts   == CommandParts(packet)
      command == Field(parts, 2)
  IN IF command = SensorStart
       THEN [sim |-> startScanning(sim),
             write |-> createPacket(Join(<<sRA, SensorStart, One>>))]
     ELSE IF command = SensorStop
       THEN [sim |-> stopScanning(sim),
             write |-> createPacket(Join(<<sRA, SensorStop, One>>))]
     ELSE IF command = LSScanDataConfig
       THEN [sim |-> IF Field(parts, 1) = sWC
                       THEN [sim EXCEPT !.config = ApplyScanDataConfig(sim.config, parts)]
                       ELSE sim,
             write |-> createPacket(Join(<<sWA, LSScanDataConfig, One>>))]
     ELSE [sim |-> sim, write |-> createPacket(Join(<<sRA, command, One>>))]

\* mutant: the packets of a chunk are processed last first
RECURSIVE processAll_LastFirst(_, _, _)
processAll_LastFirst(sim, packets, writes) ==
  IF packets = <<>> THEN [sim |-> sim, writes |-> writes]
  ELSE LET r == processCommand(sim, packets[Len(packets)])
       IN processAll_LastFirst(r.sim, SubSeq(packets, 1, Len(packets) - 1),
                               Append(writes, r.write))

\* the data handler of one connection, on a simulator: every complete packet
\* goes through processCommand in order
RECURSIVE processAll(_, _, _)
processAll(sim, packets, writes) ==
  IF packets = <<>> THEN [sim |-> sim, writes |-> writes]
  ELSE LET r == processCommand(sim, Head(packets))
       IN processAll(r.sim, Tail(packets), Append(writes, r.write))

\* count = Math.floor((endDeg - startDeg) / step) + 1 for a config without
\* NaN; it is zero or negative when the window is reversed.  The difference
\* of two 32-bit angles is taken in 16-bit halves: it is hi * Half + lo with
\* 0 <= lo < Half.
ScanCount(config) ==
  LET lo0  == (config.maxAngle.v % Half) - (config.minAngle.v % Half)
      lo   == IF lo0 < 0 THEN lo0 + Half ELSE lo0
      hi   == (config.maxAngle.v \div Half) - (config.minAngle.v \div Half)
                - (IF lo0 < 0 THEN 1 ELSE 0)
      step == config.resolution.v
  IN (hi \div step) * Half + (((hi % step) * Half + lo) \div step) + 1

\* the number of iterations of `for (let i = 0; i < count; i++)`: none when
\* count is NaN, zero or negative
SampleCount(config) ==
  IF config.minAngle.nan \/ config.maxAngle.nan \/ config.resolution.nan THEN 0
  ELSE IF ScanCount(config) < 0 THEN 0
  ELSE ScanCount(config)

\* mutant: one of the two '00' placeholders after the counter is missing
ScanPayload_OnePlaceholder(scanCounter, angleBegin, angleResol, amount, ranges) ==
  LET headerParts == <<sSN, LidarData, SimDevice, v1_0, OK,
                       toHex(scanCounter), Zero2,
                       toHex(Num(2000)), toHex(Num(5400)),
                       toHex(angleBegin), toHex(angleResol),
                       toHex(amount), Zero2, DIST1>>
  IN Join(headerParts) \o Comma \o Join(ranges)

\* the payload of a scan notification: headerParts.join(',') + ',' + ranges.join(',')
\* (amount is ranges.length in the simulator)
ScanPayload(scanCounter, angleBegin, angleResol, amount, ranges) ==
  LET headerParts == <<sSN, LidarData, SimDevice, v1_0, OK,
                       toHex(scanCounter), Zero2, Zero2,
                       toHex(Num(2000)), toHex(Num(5400)),
                       toHex(angleBegin), toHex(angleResol),
                       toHex(amount), Zero2, DIST1>>
  IN Join(headerParts) \o Comma \o Join(ranges)

\* the length of the payload of a scan notification with `count` samples:
\* the header, and a comma and the eight digits of toHex for every sample
ScanPayloadLength(count) ==
  Len(ScanPayload(Num(0), Num(0), Num(0), Num(count), <<>>)) - 1
    + (IF count = 0 THEN 1 ELSE 9 * count)

\* the length digits createPacket puts in front of the scan notification
\* that broadcastScanData builds for the window `config`
ScanLengthField(config) == lenStrOf(ScanPayloadLength(SampleCount(config)) + 2)

\* broadcastScanData with the millimetre values Math.round(dist * 1000) of the
\* ray casting given: the simulator afterwards and the frame written to
\* every socket (<<>> when nothing is written)
broadcastScanData(sim, samples) ==
  IF Len(sim.sockets) = 0 THEN [sim |-> sim, packet |-> <<>>]
  ELSE LET counter == sim.scanCounter + 1
           ranges  == [i \in 1..Len(samples) |-> toHex(Num(samples[i]))]
           payload == ScanPayload(Num(counter), sim.config.minAngle,
                                  sim.config.resolution, Num(Len(ranges)), ranges)
       IN [sim |-> [sim EXCEPT !.scanCounter = counter],
           packet |-> createPacket(payload)]

----------------------------------------------------------------------------
(* Scan decoding: StandardLidarDriver.parsePacket and parseScanData *)

\* mutant: the loop without `if (idx >= fields.length) break`
RECURSIVE RangeLoop_NoBreak(_, _, _, _, _)
RangeLoop_NoBreak(fields, amountOfData, i, idx, acc) ==
  IF amountOfData.nan \/ ~(i < amountOfData.v) THEN acc
  ELSE RangeLoop_NoBreak(fields, amountOfData, i + 1, idx + 1,
                 [ranges |-> Append(acc.ranges, NumOf(ParseInt16(Field(fields, idx)))),
                  reads  |-> acc.reads \cup {idx}])

\* the for loop of parseScanData from loop index i and field index idx:
\* the ranges pushed (millimetres) and the field indices read
RECURSIVE RangeLoop(_, _, _, _, _)
RangeLoop(fields, amountOfData, i, idx, acc) ==
  IF amountOfData.nan \/ ~(i < amountOfData.v) THEN acc
  ELSE IF idx >= Len(fields) THEN acc
  ELSE RangeLoop(fields, amountOfData, i + 1, idx + 1,
                 [ranges |-> Append(acc.ranges, NumOf(ParseInt16(Field(fields, idx)))),
                  reads  |-> acc.reads \cup {idx}])

\* parseScanData(fields): ok is FALSE when it throws 'No DIST1 field'
parseScanData(fields) ==
  LET distIndex == FieldIndexOf(fields, DIST1)
  IN IF distIndex = -1
       THEN [ok |-> FALSE, distIndex |-> distIndex, data |-> <<>>, reads |-> {}]
       ELSE LET amountOfData == NumOf(ParseInt16(Field(fields, distIndex - 2)))
                loop == RangeLoop(fields, amountOfData, 0, distIndex + 1,
                                  [ranges |-> <<>>, reads |-> {}])
            IN [ok |-> TRUE, distIndex |-> distIndex,
                data |-> [scanCounter  |-> NumOf(ParseInt16(Field(fields, distIndex - 9))),
                          scanFreq     |-> NumOf(ParseInt16(Field(fields, distIndex - 6))),
                          measFreq     |-> NumOf(ParseInt16(Field(fields, distIndex - 5))),
                          angleBegin   |-> Signed32(ParseInt16(Field(fields, distIndex - 4))),
                          angleResol   |-> NumOf(ParseInt16(Field(fields, distIndex - 3))),
                          amountOfData |-> amountOfData,
                          ranges       |-> loop.ranges,
                          rssi         |-> <<>>],
                reads |-> {distIndex - 9, distIndex - 6, distIndex - 5, distIndex - 4,
                           distIndex - 3, distIndex - 2} \cup loop.reads]

\* mutant: parseScanData is called outside a try block
parsePacket_NoCatch(packet) ==
  LET fields == Split(packet)
  IN IF FieldsInclude(fields, ScanData) \/ FieldsInclude(fields, sRA) \/ FieldsInclude(fields, sSN)
       THEN IF Includes(packet, DIST1)
              THEN LET r == parseScanData(fields)
                   IN IF r.ok THEN [scans |-> <<[data |-> r.data, nfields |-> Len(fields),
                                                 distIndex |-> r.distIndex, reads |-> r.reads]>>,
                                    thrown |-> FALSE]
                      ELSE [scans |-> <<>>, thrown |-> TRUE]
              ELSE [scans |-> <<>>, thrown |-> FALSE]
       ELSE [scans |-> <<>>, thrown |-> FALSE]

\* parsePacket(packet): the 'scan' events emitted (none or one), each with the
\* length of the field array, the index of DIST1 and the field indices that
\* parseScanData read; thrown says whether an exception leaves parsePacket
\* (the catch block of the source logs the one parseScanData throws)
parsePacket(packet) ==
  LET fields == Split(packet)
  IN IF FieldsInclude(fields, ScanData) \/ FieldsInclude(fields, sRA) \/ FieldsInclude(fields, sSN)
       THEN IF Includes(packet, DIST1)
              THEN LET r == parseScanData(fields)
                   IN IF r.ok THEN [scans |-> <<[data |-> r.data, nfields |-> Len(fields),
                                                 distIndex |-> r.distIndex, reads |-> r.reads]>>,
                                    thrown |-> FALSE]
                      ELSE [scans |-> <<>>, thrown |-> FALSE]
              ELSE [scans |-> <<>>, thrown |-> FALSE]
       ELSE [scans |-> <<>>, thrown |-> FALSE]

\* parsePacket on the packets handleData cut out of the buffer, in order, up
\* to a packet whose parsePacket throws
RECURSIVE parseAll(_, _)
parseAll(packets, scans) ==
  IF packets = <<>> THEN [scans |-> scans, thrown |-> FALSE]
  ELSE LET r == parsePacket(Head(packets))
       IN IF r.thrown THEN [scans |-> scans \o r.scans, thrown |-> TRUE]
          ELSE parseAll(Tail(packets), scans \o r.scans)

\* mutant: the listener keeps the first record it was given
onScan_KeepFirst(held, data) == IF held = <<>> THEN <<data>> ELSE held

\* the 'scan' listener the presentation layer registers on connect:
\* context.data = data
onScan(held, data) == <<data>>

\* the listener run on the 'scan' events of one handleData call, in order
RECURSIVE emitScans(_, _)
emitScans(held, scans) ==
  IF scans = <<>> THEN held
  ELSE emitScans(onScan(held, Head(scans).data), Tail(scans))

\* a well-formed frame: STX, payload without markers, ETX
WireFrame(payload) == <<STX>> \o payload \o <<ETX>>

FrameStart ==
  /\ fFrames \in SeqsUpTo(SeqsUpTo(PayloadBytes, MaxPayload), MaxFrames)
  /\ fStream = Concat([i \in 1..Len(fFrames) |-> WireFrame(fFrames[i])])
  /\ dPos = 0 /\ drvBuffer = <<>> /\ drvPackets = <<>>
  /\ sPos = 0 /\ simBuffer = <<>> /\ simPackets = <<>>

\* the framing variables when no framing stream is under study
FrameIdle ==
  /\ fFrames = <<>> /\ fStream = <<>>
  /\ dPos = 0 /\ drvBuffer = <<>> /\ drvPackets = <<>>
  /\ sPos = 0 /\ simBuffer = <<>> /\ simPackets = <<>>

\* the socket delivers the next n bytes of the stream to the driver
DriverData(n) ==
  /\ dPos + n <= Len(fStream)
  /\ LET r == handleData(drvBuffer, SubSeq(fStream, dPos + 1, dPos + n))
     IN /\ drvBuffer' = r.buffer
        /\ drvPackets' = drvPackets \o r.packets
  /\ dPos' = dPos + n
  /\ UNCHANGED <<fFrames, fStream, sPos, simBuffer, simPackets>>
  /\ UNCHANGED <<codecVars, sysVars, apiVars, rayVars, linkVars, regVars>>

\* the socket delivers the next n bytes of the stream to the simulator
SimData(n) ==
  /\ sPos + n <= Len(fStream)
  /\ LET r == onData(simBuffer, SubSeq(fStream, sPos + 1, sPos + n))
     IN /\ simBuffer' = r.buffer
        /\ simPackets' = simPackets \o r.packets
  /\ sPos' = sPos + n
  /\ UNCHANGED <<fFrames, fStream, dPos, drvBuffer, drvPackets>>
  /\ UNCHANGED <<codecVars, sysVars, apiVars, rayVars, linkVars, regVars>>

FrameNext ==
  \/ \E n \in 1..(MaxFrames * (MaxPayload + 2)) : DriverData(n)
  \/ \E n \in 1..(MaxFrames * (MaxPayload + 2)) : SimData(n)

----------------------------------------------------------------------------
(* One StandardLidarDriver connected to one LidarSimulator: a command of the *)
(* command table goes driver -> simulator, acknowledgments and scan frames    *)
(* go simulator -> driver.                                                    *)

\* raw angles (degrees * 10000, as Math.round gives them) the driver is asked for
AngleVals == {-2147483647 - 1, -450000, -1, 0, 1, 450000, 2250000, 2147483647}

\* widths of the narrow windows: 0, 1, 2, ... samples, away from the multiples
\* of the resolution where the rounding of the double division would matter;
\* the negative widths are reversed windows (maxAngle below minAngle)
NarrowWidths == {-10000, -1} \cup {1000 + 3330 * k : k \in 0..(MaxSamples - 1)}

NarrowPairs ==
  UNION {IF (w < 0 /\ a > -2147483647) \/ (w >= 0 /\ a <= 2147483647 - w)
           THEN {<<a, a + w>>} ELSE {} : a \in AngleVals, w \in NarrowWidths}

WritePairs == (AngleVals \X AngleVals) \cup NarrowPairs

\* values of scanCounter the sensor has reached before
CounterVals == {0, 255, 65535}

\* Math.round(dist * 1000) of a sample: clamped to 0, in range, the sentinel
SampleVals == {0, 25010}

\* a command-table entry: the command string handed to sendCommand, its
\* command name, and the class tag the command table gives it
Entry(name, args, tag) ==
  [name |-> name, rawCmd |-> Join(<<name>> \o args), tag |-> tag,
   write |-> FALSE, startVal |-> 0, endVal |-> 0]

\* the entry of configureScanRange with the raw angles startVal and endVal
WriteEntry(startVal, endVal) ==
  [name |-> LSScanDataConfig, rawCmd |-> configureScanRangeCmd(startVal, endVal),
   tag |-> sWC, write |-> TRUE, startVal |-> startVal, endVal |-> endVal]

CommandTable ==
  {Entry(SetAccessLevel, <<Zero4>>, sMC),
   Entry(SensorStart, <<>>, sMC),
   Entry(SensorStop, <<>>, sMC),
   Entry(SensorScanInfo, <<>>, sRC),
   Entry(LSScanDataConfig, <<>>, sRC),
   Entry(LSDIConfig, <<>>, sMC),
   Entry(LSFConfig, <<>>, sMC),
   Entry(LSScanDataConfig, <<drvToHex(Num(-900000))>>, sWC)}
  \cup {WriteEntry(p[1], p[2]) : p \in WritePairs}

\* the chunk sizes a socket may deliver out of `pending` bytes
Chunks(pending) == {n \in 1..pending : n = pending \/ n = ChunkSize}

\* a driver, connected or not, about to send one entry of the command table
\* to a sensor that is Idle, or a connected driver about to narrow the window
\* of a sensor that is Scanning and has broadcast `counter` frames before
CodecStart ==
  /\ cEntry \in CommandTable
  /\ cConnected \in BOOLEAN
  /\ cType = <<>>
  /\ cWire = <<>> /\ cPos = 0 /\ cSimBuf = <<>> /\ cParts = <<>>
  /\ \E armed \in BOOLEAN, counter \in CounterVals :
       /\ armed => cConnected /\ cEntry.write
       /\ ~armed => counter = 0
       /\ cSim = [NewSimulator(SENSOR_CONFIGS[1]) EXCEPT
                    !.sockets = IF cConnected THEN <<1>> ELSE <<>>,
                    !.scanInterval = IF armed THEN 1 ELSE 0,
                    !.timers = IF armed THEN {1} ELSE {},
                    !.scanCounter = counter]
  /\ kFrames = <<>> /\ kWire = <<>> /\ kPos = 0 /\ kDrvBuf = <<>> /\ kScans = <<>>
  /\ kErrors = 0 /\ kCtx = <<>>

CodecIdle ==
  /\ cEntry = Entry(<<>>, <<>>, <<>>) /\ cConnected = FALSE /\ cType = <<>>
  /\ cWire = <<>> /\ cPos = 0 /\ cSimBuf = <<>> /\ cParts = <<>>
  /\ cSim = NewSimulator(SENSOR_CONFIGS[1])
  /\ kFrames = <<>> /\ kWire = <<>> /\ kPos = 0 /\ kDrvBuf = <<>> /\ kScans = <<>>
  /\ kErrors = 0 /\ kCtx = <<>>

\* sendCommand(cEntry.rawCmd) on the driver
DrvSendCommand ==
  /\ cType = <<>>
  /\ cConnected
  /\ cType' = CommandType(cEntry.rawCmd)
  /\ cWire' = cWire \o sendCommandPacket(cEntry.rawCmd)
  /\ UNCHANGED <<cEntry, cConnected, cPos, cSimBuf, cSim, cParts,
                 kFrames, kWire, kPos, kDrvBuf, kScans, kErrors, kCtx>>
  /\ UNCHANGED <<frameVars, sysVars, apiVars, rayVars, linkVars, regVars>>

\* sendCommand on a driver that is not connected returns at once
DrvSendCommandNotConnected ==
  /\ cType = <<>>
  /\ ~cConnected
  /\ cType' = <<"-">>
  /\ UNCHANGED <<cEntry, cConnected, cWire, cPos, cSimBuf, cSim, cParts,
                 kFrames, kWire, kPos, kDrvBuf, kScans, kErrors, kCtx>>
  /\ UNCHANGED <<frameVars, sysVars, apiVars, rayVars, linkVars, regVars>>

\* the simulator's socket delivers n more bytes: framing, then processCommand
\* on every complete packet, each acknowledgment written to the socket
SimOnData(n) ==
  /\ n \in Chunks(Len(cWire) - cPos)
  /\ LET fr == onData(cSimBuf, SubSeq(cWire, cPos + 1, cPos + n))
         pr == processAll(cSim, fr.packets, <<>>)
     IN /\ cSimBuf' = fr.buffer
        /\ cSim' = pr.sim
        /\ cParts' = cParts \o [i \in 1..Len(fr.packets) |-> CommandParts(fr.packets[i])]
        /\ kFrames' = kFrames \o [i \in 1..Len(pr.writes) |->
                                    [origin |-> "ack", bytes |-> pr.writes[i]]]
        /\ kWire' = kWire \o Concat(pr.writes)
  /\ cPos' = cPos + n
  /\ UNCHANGED <<cEntry, cConnected, cType, cWire, kPos, kDrvBuf, kScans, kErrors, kCtx>>
  /\ UNCHANGED <<frameVars, sysVars, apiVars, rayVars, linkVars, regVars>>

ScanFramesWritten == Len(SelectSeq(kFrames, LAMBDA f : f.origin \in {"sim", "peer"}))

\* the interval timer fires: broadcastScanData, with the samples the ray
\* casting and its noise produce
SimBroadcast ==
  /\ cSim.scanInterval # 0
  /\ ScanFramesWritten < MaxTicks
  /\ SampleCount(cSim.config) <= MaxSamples
  /\ \E samples \in [1..SampleCount(cSim.config) -> SampleVals] :
       LET r == broadcastScanData(cSim, samples)
       IN /\ cSim' = r.sim
          /\ IF r.packet = <<>>
               THEN UNCHANGED <<kFrames, kWire>>
               ELSE /\ kFrames' = Append(kFrames,
                         [origin |-> "sim", bytes |-> r.packet,
                          scanCounter |-> r.sim.scanCounter,
                          minAngle |-> cSim.config.minAngle,
                          maxAngle |-> cSim.config.maxAngle,
                          resolution |-> cSim.config.resolution,
                          samples |-> samples])
                    /\ kWire' = kWire \o r.packet
  /\ UNCHANGED <<cEntry, cConnected, cType, cWire, cPos, cSimBuf, cParts,
                 kPos, kDrvBuf, kScans, kErrors, kCtx>>
  /\ UNCHANGED <<frameVars, sysVars, apiVars, rayVars, linkVars, regVars>>

\* a peer that is not the simulator (a sensor, or a relay that cut the frame
\* short) writes a scan frame of the same layout whose header declares
\* `amount` samples while `samples` are present
PeerScan(amount, samples) ==
  /\ cConnected
  /\ ScanFramesWritten < MaxTicks
  /\ Len(kFrames) < MaxPeerFrames
  /\ LET ranges  == [i \in 1..Len(samples) |-> toHex(Num(samples[i]))]
         full    == ScanPayload(Num(7), Num(-450000), Num(3330), Num(amount), ranges)
         payload == IF samples = <<>> THEN SubSeq(full, 1, Len(full) - 1) ELSE full
         packet  == createPacket(payload)
     IN /\ kFrames' = Append(kFrames, [origin |-> "peer", bytes |-> packet,
                                       amount |-> amount, samples |-> samples])
        /\ kWire' = kWire \o packet
  /\ UNCHANGED <<cEntry, cConnected, cType, cWire, cPos, cSimBuf, cSim, cParts,
                 kPos, kDrvBuf, kScans, kErrors, kCtx>>
  /\ UNCHANGED <<frameVars, sysVars, apiVars, rayVars, linkVars, regVars>>

\* markers that contain the text DIST1 without being the field DIST1, and one
\* that does not contain it
BadMarkers == {DIST1 \o <<"0">>, <<"x">> \o DIST1, <<"D", "I", "S", "T", "2">>}

BadFramesWritten == Len(SelectSeq(kFrames, LAMBDA f : f.origin = "bad"))

\* a peer writes a frame of the scan layout whose distance-section token is
\* `marker` instead of DIST1
PeerBadScan(marker, samples) ==
  /\ cConnected
  /\ BadFramesWritten < MaxBad
  /\ Len(kFrames) < MaxPeerFrames
  /\ LET ranges  == [i \in 1..Len(samples) |-> toHex(Num(samples[i]))]
         fields  == Split(ScanPayload(Num(7), Num(-450000), Num(3330),
                                      Num(Len(samples)), ranges))
         payload == Join([i \in 1..Len(fields) |->
                            IF fields[i] = DIST1 THEN marker ELSE fields[i]])
         packet  == createPacket(payload)
     IN /\ kFrames' = Append(kFrames, [origin |-> "bad", bytes |-> packet,
                                       marker |-> marker])
        /\ kWire' = kWire \o packet
  /\ UNCHANGED <<cEntry, cConnected, cType, cWire, cPos, cSimBuf, cSim, cParts,
                 kPos, kDrvBuf, kScans, kErrors, kCtx>>
  /\ UNCHANGED <<frameVars, sysVars, apiVars, rayVars, linkVars, regVars>>

\* the driver's socket delivers n more bytes: handleData, parsePacket on
\* every complete packet
DrvOnData(n) ==
  /\ n \in Chunks(Len(kWire) - kPos)
  /\ LET r == handleData(kDrvBuf, SubSeq(kWire, kPos + 1, kPos + n))
         e == parseAll(r.packets, <<>>)
     IN /\ kDrvBuf' = r.buffer
        /\ kScans' = kScans \o e.scans
        /\ kErrors' = kErrors + (IF e.thrown THEN 1 ELSE 0)
        /\ kCtx' = emitScans(kCtx, e.scans)
  /\ kPos' = kPos + n
  /\ UNCHANGED <<cEntry, cConnected, cType, cWire, cPos, cSimBuf, cSim, cParts,
                 kFrames, kWire>>
  /\ UNCHANGED <<frameVars, sysVars, apiVars, rayVars, linkVars, regVars>>

ShortFramesWritten == Len(SelectSeq(kFrames, LAMBDA f : f.origin = "short"))

\* a peer writes a scan frame with the wrong field count: the first `drop`
\* header fields after the class token are missing, so that fewer than nine
\* fields precede DIST1
PeerShortScan(drop, samples) ==
  /\ cConnected
  /\ ShortFramesWritten < MaxBad
  /\ Len(kFrames) < MaxPeerFrames
  /\ LET ranges  == [i \in 1..Len(samples) |-> toHex(Num(samples[i]))]
         fields  == Split(ScanPayload(Num(7), Num(-450000), Num(3330),
                                      Num(Len(samples)), ranges))
         payload == Join(<<fields[1]>> \o SubSeq(fields, drop + 2, Len(fields)))
         packet  == createPacket(payload)
     IN /\ kFrames' = Append(kFrames, [origin |-> "short", bytes |-> packet,
                                       amount |-> Len(samples), samples |-> samples,
                                       drop |-> drop])
        /\ kWire' = kWire \o packet
  /\ UNCHANGED <<cEntry, cConnected, cType, cWire, cPos, cSimBuf, cSim, cParts,
                 kPos, kDrvBuf, kScans, kErrors, kCtx>>
  /\ UNCHANGED <<frameVars, sysVars, apiVars, rayVars, linkVars, regVars>>

RssiFramesWritten == Len(SelectSeq(kFrames, LAMBDA f : f.origin = "rssi"))

\* signal-strength sections: the number of range samples of the frame and
\* the values that follow the RSSI1 token
RssiSections == {<<1, <<1>>>>, <<1, <<1, 255>>>>, <<2, <<255>>>>}

\* a peer writes a scan frame that carries `amount` range samples and, after
\* them, the token RSSI1 followed by the signal strengths `rssi`
PeerRssiScan(amount, rssi) ==
  /\ cConnected
  /\ RssiFramesWritten < MaxTicks
  /\ Len(kFrames) < MaxPeerFrames
  /\ LET samples == [i \in 1..amount |-> 25010]
         ranges  == [i \in 1..amount |-> toHex(Num(samples[i]))]
         payload == Join(<<ScanPayload(Num(8), Num(-450000), Num(3330), Num(amount), ranges),
                           RSSI1>> \o [i \in 1..Len(rssi) |-> toHex(Num(rssi[i]))])
         packet  == createPacket(payload)
     IN /\ kFrames' = Append(kFrames, [origin |-> "rssi", bytes |-> packet,
                                       amount |-> amount, samples |-> samples,
                                       rssi |-> rssi])
        /\ kWire' = kWire \o packet
  /\ UNCHANGED <<cEntry, cConnected, cType, cWire, cPos, cSimBuf, cSim, cParts,
                 kPos, kDrvBuf, kScans, kErrors, kCtx>>
  /\ UNCHANGED <<frameVars, sysVars, apiVars, rayVars, linkVars, regVars>>

CodecNext ==
  \/ DrvSendCommand
  \/ DrvSendCommandNotConnected
  \/ \E n \in Chunks(Len(cWire) - cPos) : SimOnData(n)
  \/ SimBroadcast
  \/ \E n \in Chunks(Len(kWire) - kPos) : DrvOnData(n)

\* a connected driver fed by a peer that is not the simulator
ParseStart ==
  /\ cEntry = Entry(<<>>, <<>>, <<>>) /\ cConnected = TRUE /\ cType = <<>>
  /\ cWire = <<>> /\ cPos = 0 /\ cSimBuf = <<>> /\ cParts = <<>>
  /\ cSim = NewSimulator(SENSOR_CONFIGS[1])
  /\ kFrames = <<>> /\ kWire = <<>> /\ kPos = 0 /\ kDrvBuf = <<>> /\ kScans = <<>>
  /\ kErrors = 0 /\ kCtx = <<>>

ParseNext ==
  \/ \E amount \in 0..(MaxSamples + 1), k \in 0..MaxSamples :
       \E samples \in [1..k -> SampleVals] : PeerScan(amount, samples)
  \/ \E marker \in BadMarkers : PeerBadScan(marker, <<25010>>)
  \/ \E drop \in {7, 11} : PeerShortScan(drop, <<25010>>)
  \/ \E sec \in RssiSections : PeerRssiScan(sec[1], sec[2])
  \/ \E n \in Chunks(Len(kWire) - kPos) : DrvOnData(n)

----------------------------------------------------------------------------
(* The simulator process: the LidarSimulator objects of SENSOR_CONFIGS, the  *)
(* sockets connected to them, and clients that send command frames.  A scan  *)
(* frame written to a socket is recorded by its header values.               *)
Sensors == 1..Min(NumSensors, Len(SENSOR_CONFIGS))
Conns   == 1..NumConns

\* the window the clients write: -90 .. 90 degrees
ClientWindow == [startVal |-> -900000, endVal |-> 900000]

\* command strings the clients send
ClientCommands ==
  {SensorStart, SensorStop, LSDIConfig,
   configureScanRangeCmd(ClientWindow.startVal, ClientWindow.endVal)}

\* cmds: the command strings the client has sent on the connection, in order;
\* buffer: the `let buffer` of the connection's handleConnection call;
\* got: the packets its data handler has passed to processCommand
ClosedSock ==
  [open |-> FALSE, sensor |-> 0, cmds |-> <<>>, inflight |-> <<>>, buffer |-> <<>>,
   got |-> <<>>, out |-> <<>>]

SysStart ==
  /\ sims = [s \in Sensors |-> NewSimulator(SENSOR_CONFIGS[s])]
  /\ socks = [c \in Conns |-> ClosedSock]
  /\ cmdLog = [s \in Sensors |-> <<>>]
  /\ stopped = [s \in Sensors |-> FALSE]
  /\ sent = 0
  /\ ticks = 0
  /\ globalPhase = 0

SysIdle == SysStart

\* mutant: `config` is one object that all LidarSimulator instances share
withSim_SharedConfig(all, s, sim) ==
  [t \in DOMAIN all |-> IF t = s THEN sim ELSE [all[t] EXCEPT !.config = sim.config]]

\* the LidarSimulator objects after a handler of sensor s left its fields as
\* `sim`: every field is an instance field
withSim(all, s, sim) == [all EXCEPT ![s] = sim]

\* a client connects to the port of sensor s: the server calls handleConnection
Connect(c, s) ==
  /\ ~socks[c].open
  /\ sims' = withSim(sims, s, handleConnection(sims[s], c))
  /\ socks' = [socks EXCEPT ![c] = [ClosedSock EXCEPT !.open = TRUE, !.sensor = s]]
  /\ UNCHANGED <<cmdLog, stopped, sent, ticks, globalPhase>>
  /\ UNCHANGED <<frameVars, codecVars, apiVars, rayVars, linkVars, regVars>>

\* the client of socket c sends a command frame
ClientSend(c, rawCmd) ==
  /\ socks[c].open
  /\ sent < MaxCmds
  /\ socks' = [socks EXCEPT ![c].inflight = @ \o sendCommandPacket(rawCmd),
                            ![c].cmds = Append(@, rawCmd)]
  /\ sent' = sent + 1
  /\ UNCHANGED <<sims, cmdLog, stopped, ticks, globalPhase>>
  /\ UNCHANGED <<frameVars, codecVars, apiVars, rayVars, linkVars, regVars>>

\* the history flag `stopped` of a sensor after it processed the packets: the
\* last SensorStart or SensorStop among them decides
RECURSIVE StoppedAfter(_, _)
StoppedAfter(flag, packets) ==
  IF packets = <<>> THEN flag
  ELSE LET command == Field(CommandParts(Head(packets)), 2)
       IN StoppedAfter(IF command = SensorStop THEN TRUE
                       ELSE IF command = SensorStart THEN FALSE
                       ELSE flag,
                       Tail(packets))

\* mutant: `buffer` is a field of the LidarSimulator, one for all its sockets
withBuffer_PerSensor(all, c, buffer) ==
  [d \in DOMAIN all |->
     IF all[d].open /\ all[d].sensor = all[c].sensor
       THEN [all[d] EXCEPT !.buffer = buffer] ELSE all[d]]

\* `buffer = ...` in the data handler of socket c: `buffer` is a variable of
\* the handleConnection call that registered the handler
withBuffer(all, c, buffer) == [all EXCEPT ![c].buffer = buffer]

\* socket.on('data') of socket c with the next n bytes in flight
Receive(c, n) ==
  /\ socks[c].open
  /\ n \in Chunks(Len(socks[c].inflight))
  /\ LET s  == socks[c].sensor
         fr == onData(socks[c].buffer, SubSeq(socks[c].inflight, 1, n))
         pr == processAll(sims[s], fr.packets, <<>>)
     IN /\ sims' = withSim(sims, s, pr.sim)
        /\ socks' = [withBuffer(socks, c, fr.buffer) EXCEPT
                       ![c].inflight = SubSeq(@, n + 1, Len(@)),
                       ![c].got = @ \o fr.packets,
                       ![c].out = @ \o [i \in 1..Len(pr.writes) |->
                                          [kind |-> "ack", bytes |-> pr.writes[i]]]]
        /\ cmdLog' = [cmdLog EXCEPT ![s] = @ \o
                        [i \in 1..Len(fr.packets) |->
                           [conn |-> c, command |-> Field(CommandParts(fr.packets[i]), 2)]]]
        /\ stopped' = [stopped EXCEPT ![s] = StoppedAfter(@, fr.packets)]
  /\ UNCHANGED <<sent, ticks, globalPhase>>
  /\ UNCHANGED <<frameVars, codecVars, apiVars, rayVars, linkVars, regVars>>

\* globalPhase += 0.05, in hundredths of a radian
PhaseStep == 5

\* mutant: broadcastScanData advances the phase after it placed the obstacle
scanTick_AdvancesPhase(sim, phase) ==
  IF Len(sim.sockets) = 0
    THEN [sim |-> sim, written |-> FALSE, header |-> <<>>, phase |-> phase]
  ELSE [sim |-> [sim EXCEPT !.scanCounter = @ + 1],
        written |-> TRUE,
        header |-> [kind |-> "scan",
                    port |-> sim.port,
                    scanCounter |-> sim.scanCounter + 1,
                    angleBegin |-> sim.config.minAngle,
                    angleResol |-> sim.config.resolution,
                    amount |-> SampleCount(sim.config),
                    phase |-> phase],
        phase |-> phase + PhaseStep]

\* what broadcastScanData does to the simulator and to globalPhase (`phase`
\* before the call), and the header values of the frame it writes to every
\* socket of the listener array, with the phase the obstacle was placed at
scanTick(sim, phase) ==
  IF Len(sim.sockets) = 0
    THEN [sim |-> sim, written |-> FALSE, header |-> <<>>, phase |-> phase]
  ELSE [sim |-> [sim EXCEPT !.scanCounter = @ + 1],
        written |-> TRUE,
        header |-> [kind |-> "scan",
                    port |-> sim.port,
                    scanCounter |-> sim.scanCounter + 1,
                    angleBegin |-> sim.config.minAngle,
                    angleResol |-> sim.config.resolution,
                    amount |-> SampleCount(sim.config),
                    phase |-> phase],
        phase |-> phase]

\* mutant: the frame goes to the first socket of the array only
writesTo_FirstOnly(sockets, c) ==
  IF sockets # <<>> /\ sockets[1] = c THEN 1 ELSE 0

\* this.sockets.forEach(s => s.write(packet)): the number of writes socket c
\* gets, one per occurrence in the array
writesTo(sockets, c) == Len(SelectSeq(sockets, LAMBDA x : x = c))

\* the interval timer t of sensor s fires
Tick(s, t) ==
  /\ t \in sims[s].timers
  /\ ticks < MaxBroadcasts
  /\ LET r == scanTick(sims[s], globalPhase)
     IN /\ sims' = withSim(sims, s, r.sim)
        /\ globalPhase' = r.phase
        /\ socks' = [c \in Conns |->
                       IF r.written
                         THEN [socks[c] EXCEPT !.out = @ \o
                                 [i \in 1..writesTo(sims[s].sockets, c) |-> r.header]]
                         ELSE socks[c]]
  /\ ticks' = ticks + 1
  /\ UNCHANGED <<cmdLog, stopped, sent>>
  /\ UNCHANGED <<frameVars, codecVars, apiVars, rayVars, linkVars, regVars>>

\* socket.on('close') of socket c; bytes still in flight are lost
Close(c) ==
  /\ socks[c].open
  /\ sims' = withSim(sims, socks[c].sensor, onClose(sims[socks[c].sensor], c))
  /\ socks' = [socks EXCEPT ![c].open = FALSE, ![c].inflight = <<>>, ![c].buffer = <<>>]
  /\ stopped' = [stopped EXCEPT ![socks[c].sensor] =
                    IF \A i \in 1..Len(sims[socks[c].sensor].sockets) :
                         sims[socks[c].sensor].sockets[i] = c
                      THEN TRUE ELSE @]
  /\ UNCHANGED <<cmdLog, sent, ticks, globalPhase>>
  /\ UNCHANGED <<frameVars, codecVars, apiVars, rayVars, linkVars, regVars>>

\* the global interval timer fires: globalPhase += 0.05
ClockTick ==
  /\ globalPhase < MaxClock * PhaseStep
  /\ globalPhase' = globalPhase + PhaseStep
  /\ UNCHANGED <<sims, socks, cmdLog, stopped, sent, ticks>>
  /\ UNCHANGED <<frameVars, codecVars, apiVars, rayVars, linkVars, regVars>>

SysNext ==
  \/ ClockTick
  \/ \E c \in Conns, s \in Sensors : Connect(c, s)
  \/ \E c \in Conns, rawCmd \in ClientCommands : ClientSend(c, rawCmd)
  \/ \E c \in Conns : \E n \in Chunks(Len(socks[c].inflight)) : Receive(c, n)
  \/ \E s \in Sensors : \E t \in sims[s].timers : Tick(s, t)
  \/ \E c \in Conns : Close(c)

----------------------------------------------------------------------------
(* The public interface of one StandardLidarDriver: connect, disconnect,    *)
(* initialize and configureScanRange, the events of its socket, and the     *)
(* simulated sensor at the other end of the connection.                     *)

\* a number of degrees, given by its product with 10000 as units + tenths/10
Deg(units, tenths) == [units |-> units, tenths |-> tenths]

\* mutant: truncation towards minus infinity instead of rounding
MathRound_Floor(x) == x.units + (x.tenths \div 10)

\* Math.round(deg * 10000): floor(v + 0.5) of the product v
MathRound(x) == x.units + ((x.tenths + 5) \div 10)

\* mutant: initialize without the await between the two commands
initializeSteps_NoDelay ==
  [first |-> <<Join(<<SetAccessLevel, Zero4>>), SensorStart>>, afterDelay |-> <<>>]

\* initialize(): the commands sent before `await this.delay(100)` and after
initializeSteps ==
  [first |-> <<Join(<<SetAccessLevel, Zero4>>)>>, afterDelay |-> <<SensorStart>>]

\* configureScanRange(minDeg, maxDeg): likewise
configureScanRangeSteps(minDeg, maxDeg) ==
  [first |-> <<Join(<<SetAccessLevel, Zero4>>)>>,
   afterDelay |-> <<configureScanRangeCmd(MathRound(minDeg), MathRound(maxDeg))>>]

\* the arguments the application passes to configureScanRange
DegPairs ==
  {<<Deg(-900000, 4), Deg(900000, -4)>>,
   <<Deg(0, -6), Deg(1000, 4)>>,
   <<Deg(-2147483647 - 1, 4), Deg(2147483646, 6)>>}

\* sendCommand for each command of cmds, on behalf of call k: the frames
\* written with client.write, none when the driver is not connected.  A
\* frame reaches the peer when the socket is open.
SendAll(connected, sockState, k, cmds, after) ==
  IF ~connected THEN <<>>
  ELSE [i \in 1..Len(cmds) |->
          [call |-> k, bytes |-> sendCommandPacket(cmds[i]), afterDelay |-> after,
           onWire |-> sockState = "open"]]

\* the frames that reached the simulator's socket, and their bytes
OnWire == SelectSeq(aWrote, LAMBDA f : f.onWire)
ApiWire == Concat([i \in 1..Len(OnWire) |-> OnWire[i].bytes])

\* processCommand on each packet in order: for each, its fields and the
\* window of the sensor once it is processed
RECURSIVE processLog(_, _, _)
processLog(sim, packets, log) ==
  IF packets = <<>> THEN [sim |-> sim, log |-> log]
  ELSE LET r == processCommand(sim, Head(packets))
       IN processLog(r.sim, Tail(packets),
                     Append(log, [parts |-> CommandParts(Head(packets)),
                                  config |-> r.sim.config]))

ApiStart ==
  /\ aListeners \in 0..1
  /\ aSock = "idle" /\ aConnected = FALSE /\ aPromise = "none"
  /\ aErrLog = <<>> /\ aDisconnected = 0 /\ aCrashed = FALSE
  /\ aCalls = <<>> /\ aWrote = <<>>
  /\ aPos = 0 /\ aSimBuf = <<>> /\ aSim = NewSimulator(SENSOR_CONFIGS[1])
  /\ aProcessed = <<>> /\ aScans = <<>>

ApiIdle ==
  /\ aListeners = 0
  /\ aSock = "idle" /\ aConnected = FALSE /\ aPromise = "none"
  /\ aErrLog = <<>> /\ aDisconnected = 0 /\ aCrashed = FALSE
  /\ aCalls = <<>> /\ aWrote = <<>>
  /\ aPos = 0 /\ aSimBuf = <<>> /\ aSim = NewSimulator(SENSOR_CONFIGS[1])
  /\ aProcessed = <<>> /\ aScans = <<>>

\* connect(host, port): the promise is pending, a reject listener is added
ApiConnect ==
  /\ ~aCrashed /\ aSock = "idle"
  /\ aSock' = "connecting"
  /\ aPromise' = "pending"
  /\ UNCHANGED <<aListeners, aConnected, aErrLog, aDisconnected, aCrashed, aCalls,
                 aWrote, aPos, aSimBuf, aSim, aProcessed, aScans>>
  /\ UNCHANGED <<frameVars, codecVars, sysVars, rayVars, linkVars, regVars>>

\* the connect callback of client.connect; the server calls handleConnection
OnConnect ==
  /\ ~aCrashed /\ aSock = "connecting"
  /\ aSock' = "open"
  /\ aConnected' = TRUE
  /\ aPromise' = "resolved"
  /\ aSim' = handleConnection(aSim, 1)
  /\ UNCHANGED <<aListeners, aErrLog, aDisconnected, aCrashed, aCalls,
                 aWrote, aPos, aSimBuf, aProcessed, aScans>>
  /\ UNCHANGED <<frameVars, codecVars, sysVars, rayVars, linkVars, regVars>>

\* the socket emits 'error' (refused while connecting, reset while open).
\* The constructor's listener runs first and calls this.emit('error', err),
\* which throws when the driver has no 'error' listener: the reject listener
\* added by connect is then not run and the exception is uncaught.
OnError ==
  /\ ~aCrashed /\ aSock \in {"connecting", "open"}
  /\ LET thrown  == aListeners = 0
         promise == IF ~thrown /\ aPromise = "pending" THEN "rejected" ELSE aPromise
     IN /\ aPromise' = promise
        /\ aCrashed' = thrown
        /\ aErrLog' = Append(aErrLog, [phase |-> aSock, promise |-> promise,
                                       delivered |-> aListeners, thrown |-> thrown])
  /\ aSock' = "errored"
  /\ UNCHANGED <<aListeners, aConnected, aDisconnected, aCalls,
                 aWrote, aPos, aSimBuf, aSim, aProcessed, aScans>>
  /\ UNCHANGED <<frameVars, codecVars, sysVars, rayVars, linkVars, regVars>>

\* the socket emits 'close' (after an error, after destroy, or because the
\* peer ended the connection); the server's socket closes with it and the
\* bytes in flight are lost
OnSocketClose ==
  /\ ~aCrashed /\ aSock \in {"open", "errored", "destroyed"}
  /\ aSock' = "closed"
  /\ aConnected' = FALSE
  /\ aDisconnected' = aDisconnected + 1
  /\ aSim' = IF aSim.sockets # <<>> THEN onClose(aSim, 1) ELSE aSim
  /\ aPos' = Len(ApiWire)
  /\ aSimBuf' = <<>>
  /\ UNCHANGED <<aListeners, aPromise, aErrLog, aCrashed, aCalls, aWrote,
                 aProcessed, aScans>>
  /\ UNCHANGED <<frameVars, codecVars, sysVars, rayVars, linkVars, regVars>>

\* disconnect()
ApiDisconnect ==
  /\ ~aCrashed /\ aSock \in {"connecting", "open"}
  /\ aSock' = "destroyed"
  /\ aConnected' = FALSE
  /\ UNCHANGED <<aListeners, aPromise, aErrLog, aDisconnected, aCrashed, aCalls,
                 aWrote, aPos, aSimBuf, aSim, aProcessed, aScans>>
  /\ UNCHANGED <<frameVars, codecVars, sysVars, rayVars, linkVars, regVars>>

\* the record of a call of initialize or configureScanRange whose body has
\* run up to the await
NewCall(op, minDeg, maxDeg, steps, connected) ==
  [op |-> op, minDeg |-> minDeg, maxDeg |-> maxDeg, steps |-> steps, pc |-> "delay",
   connAtCall |-> connected, connAtResume |-> FALSE]

\* the application calls initialize(): the body runs up to the await
ApiInitialize ==
  /\ ~aCrashed /\ Len(aCalls) < MaxCalls
  /\ aCalls' = Append(aCalls, NewCall("initialize", Deg(0, 0), Deg(0, 0),
                                      initializeSteps, aConnected))
  /\ aWrote' = aWrote \o SendAll(aConnected, aSock, Len(aCalls) + 1,
                                 initializeSteps.first, FALSE)
  /\ UNCHANGED <<aListeners, aSock, aConnected, aPromise, aErrLog, aDisconnected,
                 aCrashed, aPos, aSimBuf, aSim, aProcessed, aScans>>
  /\ UNCHANGED <<frameVars, codecVars, sysVars, rayVars, linkVars, regVars>>

\* the application calls configureScanRange(minDeg, maxDeg)
ApiConfigureScanRange(minDeg, maxDeg) ==
  /\ ~aCrashed /\ Len(aCalls) < MaxCalls
  /\ aCalls' = Append(aCalls, NewCall("configureScanRange", minDeg, maxDeg,
                                      configureScanRangeSteps(minDeg, maxDeg), aConnected))
  /\ aWrote' = aWrote \o SendAll(aConnected, aSock, Len(aCalls) + 1,
                                 configureScanRangeSteps(minDeg, maxDeg).first, FALSE)
  /\ UNCHANGED <<aListeners, aSock, aConnected, aPromise, aErrLog, aDisconnected,
                 aCrashed, aPos, aSimBuf, aSim, aProcessed, aScans>>
  /\ UNCHANGED <<frameVars, codecVars, sysVars, rayVars, linkVars, regVars>>

\* the timer of delay(100) of call k fires: the rest of the body runs
DelayElapsed(k) ==
  /\ ~aCrashed /\ k \in 1..Len(aCalls) /\ aCalls[k].pc = "delay"
  /\ aCalls' = [aCalls EXCEPT ![k].pc = "done", ![k].connAtResume = aConnected]
  /\ aWrote' = aWrote \o SendAll(aConnected, aSock, k, aCalls[k].steps.afterDelay, TRUE)
  /\ UNCHANGED <<aListeners, aSock, aConnected, aPromise, aErrLog, aDisconnected,
                 aCrashed, aPos, aSimBuf, aSim, aProcessed, aScans>>
  /\ UNCHANGED <<frameVars, codecVars, sysVars, rayVars, linkVars, regVars>>

\* the simulator's socket delivers n more bytes to its data handler
ApiSimData(n) ==
  /\ ~aCrashed /\ aSim.sockets # <<>>
  /\ n \in Chunks(Len(ApiWire) - aPos)
  /\ LET fr == onData(aSimBuf, SubSeq(ApiWire, aPos + 1, aPos + n))
         pr == processLog(aSim, fr.packets, <<>>)
     IN /\ aSimBuf' = fr.buffer
        /\ aSim' = pr.sim
        /\ aProcessed' = aProcessed \o pr.log
  /\ aPos' = aPos + n
  /\ UNCHANGED <<aListeners, aSock, aConnected, aPromise, aErrLog, aDisconnected,
                 aCrashed, aCalls, aWrote, aScans>>
  /\ UNCHANGED <<frameVars, codecVars, sysVars, rayVars, linkVars, regVars>>

\* the broadcast timer of the sensor fires
ApiSimTick ==
  /\ ~aCrashed /\ aSim.scanInterval # 0
  /\ Len(aScans) < MaxTicks
  /\ LET r == scanTick(aSim, globalPhase)
     IN /\ aSim' = r.sim
        /\ aScans' = IF r.written
                       THEN Append(aScans, [header |-> r.header, after |-> Len(aProcessed)])
                       ELSE aScans
  /\ UNCHANGED <<aListeners, aSock, aConnected, aPromise, aErrLog, aDisconnected,
                 aCrashed, aCalls, aWrote, aPos, aSimBuf, aProcessed>>
  /\ UNCHANGED <<frameVars, codecVars, sysVars, rayVars, linkVars, regVars>>

ApiNext ==
  \/ ApiConnect
  \/ OnConnect
  \/ OnError
  \/ OnSocketClose
  \/ ApiDisconnect
  \/ ApiInitialize
  \/ \E p \in DegPairs : ApiConfigureScanRange(p[1], p[2])
  \/ \E k \in 1..MaxCalls : DelayElapsed(k)
  \/ \E n \in Chunks(Len(ApiWire) - aPos) : ApiSimData(n)
  \/ ApiSimTick

----------------------------------------------------------------------------
(* The legacy drivers: class LidarDriver of src/LidarDriver.ts and of the    *)
(* earlier revision, whose sendCommand chooses the class tag differently.    *)

LegacyDrivers == {"src/LidarDriver.ts", "part_001"}

\* step 1 of the legacy sendCommand: the class tag `type`
LegacyCommandType(driver, rawCmd) ==
  IF driver = "src/LidarDriver.ts"
    THEN IF \/ Includes(rawCmd, SetAccessLevel) \/ Includes(rawCmd, SensorStart)
            \/ Includes(rawCmd, SensorStop) THEN sMC
         ELSE IF Includes(rawCmd, SensorScanInfo) \/ Includes(rawCmd, ScanDataConfig) THEN sRC
         ELSE IF Includes(rawCmd, LSScanDataConfig) THEN sWC
         ELSE sMC
  ELSE IF Includes(rawCmd, SensorScanInfo) \/ Includes(rawCmd, ScanDataConfig) THEN sRC
  ELSE IF Includes(rawCmd, LSScanDataConfig) THEN sWC
  ELSE sMC

\* steps 2-5 of the legacy sendCommand: the bytes of packetBuf
legacySendCommandPacket(driver, rawCmd) ==
  LET payloadStr == Comma \o LegacyCommandType(driver, rawCmd) \o Comma \o rawCmd
      totalLen   == 1 + 4 + Len(payloadStr) + 1
      lenStr     == PadStart(HexStr(totalLen), 4)
      packetStr  == lenStr \o payloadStr
  IN <<STX>> \o packetStr \o <<ETX>>

\* a legacy driver, connected or not, about to send one entry of the command
\* table to a sensor that is Idle
LegacyStart ==
  /\ cEntry \in {e @@ [driver |-> d] : e \in CommandTable, d \in LegacyDrivers}
  /\ cConnected \in BOOLEAN
  /\ cType = <<>>
  /\ cWire = <<>> /\ cPos = 0 /\ cSimBuf = <<>> /\ cParts = <<>>
  /\ cSim = [NewSimulator(SENSOR_CONFIGS[1]) EXCEPT
               !.sockets = IF cConnected THEN <<1>> ELSE <<>>]
  /\ kFrames = <<>> /\ kWire = <<>> /\ kPos = 0 /\ kDrvBuf = <<>> /\ kScans = <<>>
  /\ kErrors = 0 /\ kCtx = <<>>

\* sendCommand(cEntry.rawCmd) on the legacy driver
LegacySendCommand ==
  /\ cType = <<>>
  /\ cConnected
  /\ cType' = LegacyCommandType(cEntry.driver, cEntry.rawCmd)
  /\ cWire' = cWire \o legacySendCommandPacket(cEntry.driver, cEntry.rawCmd)
  /\ UNCHANGED <<cEntry, cConnected, cPos, cSimBuf, cSim, cParts,
                 kFrames, kWire, kPos, kDrvBuf, kScans, kErrors, kCtx>>
  /\ UNCHANGED <<frameVars, sysVars, apiVars, rayVars, linkVars, regVars>>

\* sendCommand on a legacy driver that is not connected returns at once
LegacySendCommandNotConnected ==
  /\ cType = <<>>
  /\ ~cConnected
  /\ cType' = <<"-">>
  /\ UNCHANGED <<cEntry, cConnected, cWire, cPos, cSimBuf, cSim, cParts,
                 kFrames, kWire, kPos, kDrvBuf, kScans, kErrors, kCtx>>
  /\ UNCHANGED <<frameVars, sysVars, apiVars, rayVars, linkVars, regVars>>

LegacyNext ==
  \/ LegacySendCommand
  \/ LegacySendCommandNotConnected
  \/ \E n \in Chunks(Len(cWire) - cPos) : SimOnData(n)

----------------------------------------------------------------------------
(* Framing of a byte stream that is not a sequence of well-formed frames.    *)

StreamBytes == {STX, ETX, "a"}

\* any byte stream of up to MaxStream bytes
NoisyStart ==
  /\ fFrames = <<>>
  /\ fStream \in SeqsUpTo(StreamBytes, MaxStream)
  /\ dPos = 0 /\ drvBuffer = <<>> /\ drvPackets = <<>>
  /\ sPos = 0 /\ simBuffer = <<>> /\ simPackets = <<>>

----------------------------------------------------------------------------
(* The ray casting of broadcastScanData for one sample.  Lengths are in      *)
(* tenths of a metre.  A ray direction (cos, sin) is a rational unit vector  *)
(* (p / UnitDen, q / UnitDen) and the obstacle is at a rational point of its *)
(* circle, so that every comparison of the source is decided exactly; a      *)
(* distance is the fraction num / den with den > 0.                          *)

\* coordinates of the room walls: ROOM_SIZE / 2 on each side of the centre
ROOM_SIZE == 200
wl == ROOM_SIZE \div 2

\* `let dist = 25.0`: the maximum-range sentinel
MaxRange == [num |-> 250, den |-> 1]

objRadius == 5

\* radius of the circle the obstacle moves on: 3.0 m
OrbitRadius == 30

UnitDen == 5

\* the unit vectors (p, q) / UnitDen
Directions ==
  {d \in [p : -UnitDen..UnitDen, q : -UnitDen..UnitDen] :
     d.p * d.p + d.q * d.q = UnitDen * UnitDen}

\* (cos(globalPhase) * 3.0, sin(globalPhase) * 3.0) at the phases where both
\* are rational with denominator UnitDen
ObstaclePoints ==
  {[x |-> (OrbitRadius \div UnitDen) * d.p, y |-> (OrbitRadius \div UnitDen) * d.q] :
     d \in Directions}

\* (Math.random() - 0.5) * 0.02 in millimetres: a value of [-10, 10)
NoiseVals == {-10, -3, 0, 9}

\* cos and sin of a multiple of 90 degrees
CosDeg(deg) == CASE deg % 360 = 0 -> 1 [] deg % 360 = 180 -> -1 [] OTHER -> 0
SinDeg(deg) == CASE deg % 360 = 90 -> 1 [] deg % 360 = 270 -> -1 [] OTHER -> 0

Abs(x) == IF x < 0 THEN -x ELSE x

\* the fraction n / d with a positive denominator (n / 0 stays as it is)
Frac(n, d) == IF d < 0 THEN [num |-> -n, den |-> -d] ELSE [num |-> n, den |-> d]

FracLess(a, b) == a.num * b.den < b.num * a.den

\* Math.min on distances
FracMin(a, b) == IF FracLess(b, a) THEN b ELSE a

\* toLocal(gx, gy) of a sensor with the given pose
toLocal(pose, gx, gy) ==
  LET cosR == CosDeg(-pose.rotation)
      sinR == SinDeg(-pose.rotation)
  IN [x |-> (gx - pose.x) * cosR - (gy - pose.y) * sinR,
      y |-> (gx - pose.x) * sinR + (gy - pose.y) * cosR]

\* the wall segments in the sensor's frame: top, bottom, left, right
walls(pose) ==
  <<[a |-> toLocal(pose, -wl, wl),  b |-> toLocal(pose, wl, wl)],
    [a |-> toLocal(pose, -wl, -wl), b |-> toLocal(pose, wl, -wl)],
    [a |-> toLocal(pose, -wl, -wl), b |-> toLocal(pose, -wl, wl)],
    [a |-> toLocal(pose, wl, -wl),  b |-> toLocal(pose, wl, wl)]>>

\* denom * UnitDen for the ray and the wall
Denom(dir, wall) ==
  dir.q * (wall.b.x - wall.a.x) - dir.p * (wall.b.y - wall.a.y)

\* mutant: the parallel test is missing
Parallel_Never(denom) == FALSE

\* Math.abs(denom) < 1e-10: among the values denom takes here, zero only
Parallel(denom) == denom = 0

\* the body of the wall loop for one wall: whether the two divisions by denom
\* are made, whether `t > 0 && s >= 0 && s <= 1`, and t
wallTest(dir, wall) ==
  LET dx == wall.b.x - wall.a.x
      dy == wall.b.y - wall.a.y
      denom == Denom(dir, wall)
      tNum == wall.a.y * dx - wall.a.x * dy
      sNum == dir.p * wall.a.y - dir.q * wall.a.x
  IN [divided |-> ~Parallel(denom),
      hit |-> /\ ~Parallel(denom)
              /\ tNum * denom > 0
              /\ sNum * denom >= 0
              /\ Abs(sNum) <= Abs(denom),
      t |-> Frac(UnitDen * tNum, denom)]

\* the wall loop from wall i on: the distance, and the walls divided by
RECURSIVE wallLoop(_, _, _, _)
wallLoop(dir, ws, i, acc) ==
  IF i > Len(ws) THEN acc
  ELSE LET w == wallTest(dir, ws[i])
       IN wallLoop(dir, ws, i + 1,
                   [dist |-> IF w.hit THEN FracMin(acc.dist, w.t) ELSE acc.dist,
                    divided |-> IF w.divided THEN acc.divided \cup {i} ELSE acc.divided])

\* Math.round(x - Math.sqrt(y)) - x for an integer x and an integer y >= 0:
\* the number m with m - 1/2 <= sqrt(y) < m + 1/2
RoundedRoot(y) ==
  CHOOSE m \in 0..(20 * objRadius * UnitDen) :
    /\ (2 * m + 1) * (2 * m + 1) > 4 * y
    /\ m = 0 \/ (2 * m - 1) * (2 * m - 1) <= 4 * y

\* mutant: the far intersection of the ray with the circle
entryPoint_Far(proj, halfChord) == proj + halfChord

\* proj - Math.sqrt(objRadius * objRadius - distToRay * distToRay)
entryPoint(proj, halfChord) == proj - halfChord

\* mutant: the sample is not clamped
clampDist_None(mm) == mm

\* if (dist < 0) dist = 0
clampDist(mm) == IF mm < 0 THEN 0 ELSE mm

\* one pass of the ray loop for the direction dir, with the noise (in
\* millimetres) that Math.random gives: the wall distance, the obstacle test
\* and Math.round(dist * 1000).  When the ray is a tangent of the circle the
\* rounding of the doubles decides `distToRay < objRadius`: graze is its
\* outcome.
castRay(pose, dir, obj, noise, graze) ==
  LET w == wallLoop(dir, walls(pose), 1, [dist |-> MaxRange, divided |-> {}])
      v == toLocal(pose, obj.x, obj.y)
      proj == v.x * dir.p + v.y * dir.q
      distToRay == Abs(v.x * (-dir.q) + v.y * dir.p)
      ahead == proj > 0 /\ proj * w.dist.den < w.dist.num * UnitDen
      within == \/ distToRay < objRadius * UnitDen
                \/ distToRay = objRadius * UnitDen /\ graze
      mm == 100 \div UnitDen
      chord == mm * mm * (objRadius * objRadius * UnitDen * UnitDen - distToRay * distToRay)
      onObstacle == entryPoint(mm * proj + noise, IF within THEN RoundedRoot(chord) ELSE 0)
      onWall == (200 * w.dist.num + 2 * noise * w.dist.den + w.dist.den) \div (2 * w.dist.den)
      rounded == IF ahead /\ within THEN onObstacle ELSE onWall
  IN [noise |-> noise, wall |-> w.dist, divided |-> w.divided,
      proj |-> proj, distToRay |-> distToRay, obstacle |-> ahead /\ within,
      reported |-> clampDist(rounded)]

\* a sensor, a ray direction and an obstacle position
RayStart ==
  /\ rPose \in {SENSOR_CONFIGS[i] : i \in 1..Len(SENSOR_CONFIGS)}
  /\ rDir \in Directions
  /\ rObj \in ObstaclePoints
  /\ rGraze \in BOOLEAN
  /\ rRuns = <<>>

\* poses a SENSOR_CONFIGS table could also hold: a sensor inside the circle
\* of the obstacle, on its edge, and one outside the room
OtherPoses ==
  {[port |-> 8005, x |-> 28, y |-> 0, rotation |-> 0],
   [port |-> 8006, x |-> 0, y |-> 25, rotation |-> 90],
   [port |-> 8007, x |-> 300, y |-> 0, rotation |-> 0]}

\* a sensor of SENSOR_CONFIGS or of OtherPoses, a ray direction and an
\* obstacle position
PoseStart ==
  /\ rPose \in {SENSOR_CONFIGS[i] : i \in 1..Len(SENSOR_CONFIGS)} \cup OtherPoses
  /\ rDir \in Directions
  /\ rObj \in ObstaclePoints
  /\ rGraze \in BOOLEAN
  /\ rRuns = <<>>

RayIdle ==
  /\ rPose = SENSOR_CONFIGS[1] /\ rDir = [p |-> UnitDen, q |-> 0]
  /\ rObj = [x |-> OrbitRadius, y |-> 0] /\ rGraze = FALSE /\ rRuns = <<>>

\* the range computation runs once more on the same pose, ray and obstacle
CastRay(noise) ==
  /\ Len(rRuns) < MaxRuns
  /\ rRuns' = Append(rRuns, castRay(rPose, rDir, rObj, noise, rGraze))
  /\ UNCHANGED <<rPose, rDir, rObj, rGraze>>
  /\ UNCHANGED <<frameVars, codecVars, sysVars, apiVars, linkVars, regVars>>

RayNext == \E noise \in NoiseVals : CastRay(noise)

----------------------------------------------------------------------------
(* One StandardLidarDriver connected, disconnected and connected again on   *)
(* its one net.Socket.  The 'data' listener is registered once, in the      *)
(* constructor, so every connection feeds the same handleData and the same  *)
(* this.buffer.                                                              *)

LinkStart ==
  /\ lSock = "idle" /\ lConnected = FALSE /\ lBuffer = <<>>
  /\ lRecv = <<>> /\ lPackets = <<>>

LinkIdle == LinkStart

\* connect(host, port) and its callback: this.client.connect on the driver's
\* socket, then connected = true; nothing else is assigned
LinkConnect ==
  /\ lSock \in {"idle", "destroyed", "closed"}
  /\ Len(lRecv) < MaxConnects
  /\ lSock' = "open"
  /\ lConnected' = TRUE
  /\ lRecv' = Append(lRecv, <<>>)
  /\ lPackets' = Append(lPackets, <<>>)
  /\ UNCHANGED lBuffer
  /\ UNCHANGED <<frameVars, codecVars, sysVars, apiVars, rayVars, regVars>>

\* the socket delivers a chunk of the current connection to handleData
LinkData(chunk) ==
  /\ lSock = "open"
  /\ chunk # <<>>
  /\ Len(lRecv[Len(lRecv)]) + Len(chunk) <= MaxRecv
  /\ LET r == handleData(lBuffer, chunk)
     IN /\ lBuffer' = r.buffer
        /\ lPackets' = [lPackets EXCEPT ![Len(lPackets)] = @ \o r.packets]
  /\ lRecv' = [lRecv EXCEPT ![Len(lRecv)] = @ \o chunk]
  /\ UNCHANGED <<lSock, lConnected>>
  /\ UNCHANGED <<frameVars, codecVars, sysVars, apiVars, rayVars, regVars>>

\* disconnect(): this.client.destroy(); this.connected = false
LinkDisconnect ==
  /\ lSock = "open"
  /\ lSock' = "destroyed"
  /\ lConnected' = FALSE
  /\ UNCHANGED <<lBuffer, lRecv, lPackets>>
  /\ UNCHANGED <<frameVars, codecVars, sysVars, apiVars, rayVars, regVars>>

\* the 'close' listener of the constructor, after a destroy or when the peer
\* closed the connection: this.connected = false
LinkOnClose ==
  /\ lSock \in {"open", "destroyed"}
  /\ lSock' = "closed"
  /\ lConnected' = FALSE
  /\ UNCHANGED <<lBuffer, lRecv, lPackets>>
  /\ UNCHANGED <<frameVars, codecVars, sysVars, apiVars, rayVars, regVars>>

LinkNext ==
  \/ LinkConnect
  \/ \E chunk \in SeqsUpTo(StreamBytes, MaxRecv) : LinkData(chunk)
  \/ LinkDisconnect
  \/ LinkOnClose

----------------------------------------------------------------------------
(* The sensor registry of the web server: the Map `sensors`, the counter    *)
(* nextSensorId, and the handlers of POST /connect and POST /disconnect.    *)
(* The /connect handler is an async function: it runs to its                *)
(* `await driver.connect(...)`, and the rest runs when the promise settles. *)

\* the addresses (ip, port) the requests name
Targets == {[ip |-> "127.0.0.1", port |-> 8001], [ip |-> "127.0.0.1", port |-> 8002]}

Reqs == 1..NumReqs

NoReq == [pc |-> "new", ip |-> "", port |-> 0, id |-> 0, status |-> ""]

RegStart ==
  /\ sensors = <<>>
  /\ nextSensorId = 1
  /\ reqs = [r \in Reqs |-> NoReq]

RegIdle == RegStart

\* `for (const [sId, ctx] of sensors) if (ctx.ip === ip && ctx.port === targetPort)`:
\* the id of the first matching entry in insertion order, 0 when there is none
AlreadyConnected(entries, ip, port) ==
  LET hits == {i \in 1..Len(entries) : entries[i].ip = ip /\ entries[i].port = port}
  IN IF hits = {} THEN 0
     ELSE entries[CHOOSE i \in hits : \A j \in hits : i <= j].id

\* POST /connect for the address t, up to the return or to the await
ConnectRequest(r, t) ==
  /\ reqs[r].pc = "new"
  /\ LET sId == AlreadyConnected(sensors, t.ip, t.port)
     IN IF sId # 0
          THEN /\ reqs' = [reqs EXCEPT ![r] = [pc |-> "done", ip |-> t.ip, port |-> t.port,
                                                id |-> sId, status |-> "Already connected"]]
               /\ UNCHANGED <<sensors, nextSensorId>>
          ELSE /\ reqs' = [reqs EXCEPT ![r] = [pc |-> "await", ip |-> t.ip, port |-> t.port,
                                                id |-> nextSensorId, status |-> ""]]
               /\ nextSensorId' = nextSensorId + 1
               /\ UNCHANGED sensors
  /\ UNCHANGED <<frameVars, codecVars, sysVars, apiVars, rayVars, linkVars>>

\* driver.connect resolved: sensors.set(id, context), then the reply
ConnectResolved(r) ==
  /\ reqs[r].pc = "await"
  /\ sensors' = Append(sensors, [id |-> reqs[r].id, ip |-> reqs[r].ip, port |-> reqs[r].port])
  /\ reqs' = [reqs EXCEPT ![r].pc = "done", ![r].status = "connected"]
  /\ UNCHANGED nextSensorId
  /\ UNCHANGED <<frameVars, codecVars, sysVars, apiVars, rayVars, linkVars>>

\* driver.connect rejected: the catch block replies with the error
ConnectRejected(r) ==
  /\ reqs[r].pc = "await"
  /\ reqs' = [reqs EXCEPT ![r].pc = "done", ![r].status = "error"]
  /\ UNCHANGED <<sensors, nextSensorId>>
  /\ UNCHANGED <<frameVars, codecVars, sysVars, apiVars, rayVars, linkVars>>

\* POST /disconnect for an id that is in the registry: sensors.delete(id)
Disconnect(id) ==
  /\ \E i \in 1..Len(sensors) : sensors[i].id = id
  /\ sensors' = SelectSeq(sensors, LAMBDA e : e.id # id)
  /\ UNCHANGED <<nextSensorId, reqs>>
  /\ UNCHANGED <<frameVars, codecVars, sysVars, apiVars, rayVars, linkVars>>

RegNext ==
  \/ \E r \in Reqs, t \in Targets : ConnectRequest(r, t)
  \/ \E r \in Reqs : ConnectResolved(r)
  \/ \E r \in Reqs : ConnectRejected(r)
  \/ \E id \in 1..NumReqs : Disconnect(id)

----------------------------------------------------------------------------
(* Specifications *)
FrameInit == FrameStart /\ CodecIdle /\ SysIdle /\ ApiIdle /\ RayIdle /\ LinkIdle /\ RegIdle
SpecFrame == FrameInit /\ [][FrameNext]_vars

CodecInit == CodecStart /\ FrameIdle /\ SysIdle /\ ApiIdle /\ RayIdle /\ LinkIdle /\ RegIdle
SpecCodec == CodecInit /\ [][CodecNext]_vars

ParseInit == ParseStart /\ FrameIdle /\ SysIdle /\ ApiIdle /\ RayIdle /\ LinkIdle /\ RegIdle
SpecParse == ParseInit /\ [][ParseNext]_vars

Init == SysStart /\ FrameIdle /\ CodecIdle /\ ApiIdle /\ RayIdle /\ LinkIdle /\ RegIdle
Next == SysNext
Spec == Init /\ [][Next]_vars

ApiInit == ApiStart /\ FrameIdle /\ CodecIdle /\ SysIdle /\ RayIdle /\ LinkIdle /\ RegIdle
SpecApi == ApiInit /\ [][ApiNext]_vars

RayInit == RayStart /\ FrameIdle /\ CodecIdle /\ SysIdle /\ ApiIdle /\ LinkIdle /\ RegIdle
SpecRay == RayInit /\ [][RayNext]_vars

PoseInit == PoseStart /\ FrameIdle /\ CodecIdle /\ SysIdle /\ ApiIdle /\ LinkIdle /\ RegIdle
SpecPose == PoseInit /\ [][RayNext]_vars

LegacyInit == LegacyStart /\ FrameIdle /\ SysIdle /\ ApiIdle /\ RayIdle /\ LinkIdle /\ RegIdle
SpecLegacy == LegacyInit /\ [][LegacyNext]_vars

NoisyInit == NoisyStart /\ CodecIdle /\ SysIdle /\ ApiIdle /\ RayIdle /\ LinkIdle /\ RegIdle
SpecNoisy == NoisyInit /\ [][FrameNext]_vars

LinkInit == LinkStart /\ FrameIdle /\ CodecIdle /\ SysIdle /\ ApiIdle /\ RayIdle /\ RegIdle
SpecLink == LinkInit /\ [][LinkNext]_vars

RegInit == RegStart /\ FrameIdle /\ CodecIdle /\ SysIdle /\ ApiIdle /\ RayIdle /\ LinkIdle
SpecRegistry == RegInit /\ [][RegNext]_vars

----------------------------------------------------------------------------
(* Properties *)
IsPrefix(s, t) == Len(s) <= Len(t) /\ SubSeq(t, 1, Len(s)) = s

\* C1: whatever the chunking, the payloads yielded from a stream of N
\* well-formed frames are a prefix of the N payloads in stream order, are all
\* N of them once the whole stream has been delivered, and equal the payloads
\* yielded when the stream is delivered as one chunk (driver and simulator).
C1_ChunkingIndependent ==
  /\ IsPrefix(drvPackets, fFrames)
  /\ IsPrefix(simPackets, fFrames)
  /\ dPos = Len(fStream) =>
       /\ drvPackets = fFrames
       /\ drvPackets = handleData(<<>>, fStream).packets
  /\ sPos = Len(fStream) =>
       /\ simPackets = fFrames
       /\ simPackets = onData(<<>>, fStream).packets

\* two frames, each split across chunks, fully delivered on both sides
C1_Witness ==
  /\ Len(fFrames) = 2 /\ fFrames[1] # fFrames[2]
  /\ dPos = Len(fStream) /\ Len(drvPackets) = 2 /\ drvBuffer = <<>>
  /\ sPos = Len(fStream) /\ Len(simPackets) = 2

\* the command has been sent and every byte of it has reached the simulator
CommandDelivered == cWire # <<>> /\ cPos = Len(cWire)

\* C2: for every entry of the command table, the frame built by sendCommand,
\* framed and field-split by the simulator (4 length digits stripped, split on
\* commas), has field 1 equal to the entry's class tag and field 2 equal to
\* the entry's command name; exactly one command is recovered.
C2_EncodeParseRoundTrip ==
  /\ \A i \in 1..Len(cParts) :
       /\ Field(cParts[i], 1) = cEntry.tag
       /\ Field(cParts[i], 2) = cEntry.name
  /\ CommandDelivered => Len(cParts) = 1

\* a scan-window write, delivered in several chunks, has been split into fields
C2_Witness ==
  /\ cEntry.write /\ CommandDelivered /\ Len(cWire) > ChunkSize
  /\ Len(cParts) = 1 /\ Len(cParts[1]) = 8

\* C3: the frame sendCommand writes is STX + length field + payload + ETX with
\* payload = "," + tag + "," + command, and the four-digit length field read
\* as hexadecimal equals the number of bytes of the frame, 1 + 4 +
\* len(payload) + 1.
C3_DriverLengthField ==
  cWire # <<>> =>
    LET payload == Comma \o cType \o Comma \o cEntry.rawCmd
    IN /\ Len(cWire) = 1 + 4 + Len(payload) + 1
       /\ cWire[1] = STX
       /\ cWire[Len(cWire)] = ETX
       /\ SubSeq(cWire, 6, Len(cWire) - 1) = payload
       /\ \A i \in 2..5 : IsHexChar(cWire[i])
       /\ NumOf(ParseInt16(SubSeq(cWire, 2, 5))) = Num(Len(cWire))

\* a frame of more than 0x30 bytes has been written
C3_Witness == Len(cWire) > 48 /\ cEntry.write

\* C4: every frame the simulator writes (acknowledgment or scan notification,
\* both built by createPacket) carries a length field whose hexadecimal value
\* is the byte count of the whole frame.
C4_SimLengthIsTotal ==
  \A i \in 1..Len(kFrames) :
    kFrames[i].origin \in {"ack", "sim"} =>
      NumOf(ParseInt16(SubSeq(kFrames[i].bytes, 2, 5))) = Num(Len(kFrames[i].bytes))

\* C5: sendCommand tags SetAccessLevel, SensorStart and SensorStop sMC,
\* SensorScanInfo sRC, LSScanDataConfig sWC with arguments and sRC without,
\* and any other command sMC.
C5_TagSelection ==
  cWire # <<>> =>
    cType = (IF cEntry.name \in {SetAccessLevel, SensorStart, SensorStop} THEN sMC
             ELSE IF cEntry.name = SensorScanInfo THEN sRC
             ELSE IF cEntry.name = LSScanDataConfig
                    THEN (IF cEntry.rawCmd # cEntry.name THEN sWC ELSE sRC)
             ELSE sMC)

\* a query and a write of the scan window exist side by side; here the write
C5_Witness == cWire # <<>> /\ cEntry.name = LSScanDataConfig /\ cType = sWC

\* the frames written to the driver's socket that carry a DIST1 field, in order
ScanFrames == SelectSeq(kFrames, LAMBDA f : f.origin \in {"sim", "peer", "short", "rssi"})

AsNums(samples) == [i \in 1..Len(samples) |-> Num(samples[i])]

\* C6: the record the driver decodes from a scan frame the simulator
\* broadcast has the simulator's counter of that tick, the transmitted
\* frequencies, angleBegin = round(minAngle * 10000) as a signed value,
\* angleResol = round(resolution * 10000), amountOfData = the number of
\* samples generated and as many ranges; every broadcast frame is decoded.
C6_ScanEndToEnd ==
  /\ Len(kScans) <= Len(ScanFrames)
  /\ kPos = Len(kWire) => Len(kScans) = Len(ScanFrames)
  /\ \A i \in 1..Len(kScans) :
       ScanFrames[i].origin = "sim" =>
         LET d == kScans[i].data
             f == ScanFrames[i]
         IN /\ d.scanCounter = Num(f.scanCounter)
            /\ d.scanFreq = Num(2000)
            /\ d.measFreq = Num(5400)
            /\ d.angleBegin = f.minAngle
            /\ d.angleResol = f.resolution
            /\ d.amountOfData = Num(Len(f.samples))
            /\ Len(d.ranges) = d.amountOfData.v
            /\ d.ranges = AsNums(f.samples)

\* a frame with a negative start angle and two samples has been decoded
C6_Witness ==
  /\ Len(kScans) = 1 /\ ScanFrames[1].origin = "sim"
  /\ kScans[1].data.angleBegin.v < 0
  /\ Len(kScans[1].data.ranges) = 2
  /\ kScans[1].data.scanCounter = Num(256)

\* C7: a raw angle in [-2^31, 2^31 - 1] encoded with toHex and decoded with the
\* signed 32-bit correction comes back unchanged, from the driver to the
\* simulator (scan-window write) and from the simulator to the driver
\* (angleBegin).
C7_SignedAngleRoundTrip ==
  /\ cEntry.write /\ cParts # <<>> =>
       /\ cSim.config.minAngle = Num(cEntry.startVal)
       /\ cSim.config.maxAngle = Num(cEntry.endVal)
  /\ \A i \in 1..Len(kScans) :
       ScanFrames[i].origin = "sim" =>
         kScans[i].data.angleBegin = Num(cEntry.startVal)

\* -45 degrees went to the simulator in a write and came back in a scan frame
C7_Witness ==
  /\ cEntry.write /\ cEntry.startVal = -450000
  /\ cSim.config.minAngle = Num(-450000)
  /\ Len(kScans) = 1 /\ kScans[1].data.angleBegin = Num(-450000)

\* C8: a scan frame whose header declares n samples while k fields follow the
\* DIST1 token decodes, without an error, to a record with min(n, k) ranges,
\* and no field index at or beyond the length of the field array is read.
C8_TruncatedScan ==
  /\ kPos = Len(kWire) => Len(kScans) = Len(ScanFrames)
  /\ \A i \in 1..Len(kScans) :
       LET e == kScans[i]
           f == ScanFrames[i]
       IN /\ Len(e.data.ranges) = Min(e.data.amountOfData.v, e.nfields - e.distIndex - 1)
          /\ \A r \in e.reads : r < e.nfields
          /\ f.origin = "peer" =>
                /\ e.data.amountOfData = Num(f.amount)
                /\ Len(e.data.ranges) = Min(f.amount, Len(f.samples))

\* a frame declaring more samples than it carries has been decoded
C8_Witness ==
  /\ Len(kScans) >= 1 /\ ScanFrames[1].origin = "peer"
  /\ ScanFrames[1].amount > Len(ScanFrames[1].samples)
  /\ Len(ScanFrames[1].samples) >= 1
  /\ Len(kScans[1].data.ranges) = Len(ScanFrames[1].samples)

\* the acknowledgments written to the driver's socket, in order
AckFrames == SelectSeq(kFrames, LAMBDA f : f.origin = "ack")

\* C13: every command frame the sensor receives is answered by exactly one
\* acknowledgment that names the command and ends in 1, of class sWA for the
\* scan-window write (LSScanDataConfig sent as sWC) and of class sRA for
\* every other command, the scan-window query sent as sRC included.
C13_AckShape ==
  /\ Len(AckFrames) = Len(cParts)
  /\ \A i \in 1..Len(AckFrames) :
       LET command == Field(cParts[i], 2)
           class   == IF command = LSScanDataConfig /\ Field(cParts[i], 1) = sWC
                        THEN sWA ELSE sRA
       IN AckFrames[i].bytes = createPacket(Join(<<class, command, One>>))

\* C15: the window of the sensor satisfies minAngle < maxAngle and
\* resolution > 0 in every state; a scan-window write that proposes a window
\* with minAngle >= maxAngle is acknowledged and leaves the window as it was.
C15_WindowValidated ==
  /\ ~cSim.config.minAngle.nan /\ ~cSim.config.maxAngle.nan
  /\ cSim.config.minAngle.v < cSim.config.maxAngle.v
  /\ cSim.config.resolution.v > 0
  /\ cEntry.write /\ cParts # <<>> /\ ~(cEntry.startVal < cEntry.endVal) =>
       /\ cSim.config = DefaultConfig
       /\ Len(AckFrames) = Len(cParts)

\* C16: every scan frame the sensor broadcasts carries exactly
\* floor((maxAngle - minAngle) / resolution) + 1 samples for the window in
\* force at the tick, which is 811 for the window a sensor is constructed
\* with.
C16_SampleCount ==
  /\ ScanCount(DefaultConfig) = 811
  /\ \A i \in 1..Len(kFrames) :
       kFrames[i].origin = "sim" =>
         Len(kFrames[i].samples) =
           ScanCount([minAngle |-> kFrames[i].minAngle,
                      maxAngle |-> kFrames[i].maxAngle,
                      resolution |-> kFrames[i].resolution])

\* C20: a frame of the scan layout that has no DIST1 field emits no 'scan'
\* event and no exception leaves handleData; every well-formed scan frame,
\* before or after it, in the same chunk or another, is decoded and emitted
\* in order.
C20_BadFrameDropped ==
  /\ kErrors = 0
  /\ Len(kScans) <= Len(ScanFrames)
  /\ kPos = Len(kWire) => Len(kScans) = Len(ScanFrames)
  /\ \A i \in 1..Len(kScans) :
       ScanFrames[i].origin = "peer" =>
         /\ kScans[i].data.amountOfData = Num(ScanFrames[i].amount)
         /\ kScans[i].data.scanCounter = Num(7)

\* a frame whose marker is DIST10 was followed by a well-formed frame, and
\* the second one was decoded
C20_Witness ==
  /\ Len(kFrames) = 2 /\ kFrames[1].origin = "bad" /\ kFrames[2].origin = "peer"
  /\ Includes(kFrames[1].bytes, DIST1)
  /\ kPos = Len(kWire) /\ Len(kScans) = 1 /\ Len(kScans[1].data.ranges) = 1

\* the frames written on behalf of call k, and the command names in them
CallFrames(k) == SelectSeq(aWrote, LAMBDA f : f.call = k)
FrameParts(f) == CommandParts(SubSeq(f.bytes, 2, Len(f.bytes) - 1))
CallNames(k) == [i \in 1..Len(CallFrames(k)) |-> Field(FrameParts(CallFrames(k)[i]), 2)]

\* C17: a call of initialize() on a connected driver writes the
\* SetAccessLevel frame first, writes the SensorStart frame after it and only
\* once the settle delay has elapsed, and writes no other frame; both frames
\* are written when the driver is still connected at that time.
C17_InitializeSequence ==
  \A k \in 1..Len(aCalls) :
    aCalls[k].op = "initialize" /\ aCalls[k].connAtCall =>
      /\ IsPrefix(CallNames(k), <<SetAccessLevel, SensorStart>>)
      /\ Len(CallFrames(k)) >= 1
      /\ FrameParts(CallFrames(k)[1]) = <<<<>>, sMC, SetAccessLevel, Zero4>>
      /\ \A i \in 1..Len(CallFrames(k)) :
           CallNames(k)[i] = SensorStart <=> CallFrames(k)[i].afterDelay
      /\ aCalls[k].pc = "delay" => Len(CallFrames(k)) = 1
      /\ aCalls[k].pc = "done" /\ aCalls[k].connAtResume => Len(CallFrames(k)) = 2

\* two calls of initialize() ran side by side and each wrote its two frames
C17_Witness ==
  /\ Len(aCalls) = 2
  /\ \A k \in 1..2 : /\ aCalls[k].op = "initialize" /\ aCalls[k].pc = "done"
                      /\ CallNames(k) = <<SetAccessLevel, SensorStart>>
  /\ aWrote[2].call = 2

\* the integer nearest to units + tenths/10 (no tie among the inputs)
Nearest(x) ==
  x.units + (CHOOSE o \in {-1, 0, 1} : -5 < 10 * o - x.tenths /\ 10 * o - x.tenths < 5)

\* the index in OnWire of the last scan-window write among the first n frames
\* that reached the simulator (0 when there is none)
LastWrite(n) ==
  LET I == {i \in 1..n : Field(FrameParts(OnWire[i]), 2) = LSScanDataConfig}
  IN IF I = {} THEN 0 ELSE CHOOSE i \in I : \A j \in I : j <= i

\* C18: a call of configureScanRange(min, max) on a connected driver writes a
\* SetAccessLevel frame and then, after the delay, an LSScanDataConfig frame
\* tagged sWC; when the simulator has processed that frame its window is
\* minAngle = round(min * 10000) / 10000, maxAngle = round(max * 10000) /
\* 10000 with the resolution unchanged, and a frame broadcast while that
\* write is the last one processed reports angleBegin = round(min * 10000).
C18_ConfigureEndToEnd ==
  /\ \A k \in 1..Len(aCalls) :
       aCalls[k].op = "configureScanRange" /\ aCalls[k].connAtCall =>
         /\ IsPrefix(CallNames(k), <<SetAccessLevel, LSScanDataConfig>>)
         /\ Len(CallFrames(k)) >= 1
         /\ aCalls[k].pc = "done" /\ aCalls[k].connAtResume =>
              /\ Len(CallFrames(k)) = 2
              /\ Field(FrameParts(CallFrames(k)[2]), 1) = sWC
              /\ CallFrames(k)[2].afterDelay
  /\ \A i \in 1..Len(aProcessed) :
       Field(aProcessed[i].parts, 2) = LSScanDataConfig =>
         LET call == aCalls[OnWire[i].call]
         IN aProcessed[i].config =
              [minAngle |-> Num(Nearest(call.minDeg)),
               maxAngle |-> Num(Nearest(call.maxDeg)),
               resolution |-> DefaultConfig.resolution]
  /\ \A j \in 1..Len(aScans) :
       LastWrite(aScans[j].after) # 0 =>
         aScans[j].header.angleBegin =
           Num(Nearest(aCalls[OnWire[LastWrite(aScans[j].after)].call].minDeg))

\* the window -0.00006 .. 0.10004 degrees was configured on a Scanning sensor
\* and the next frame reports angleBegin = -1
C18_Witness ==
  /\ Len(aCalls) = 2 /\ aCalls[1].op = "initialize"
  /\ aCalls[2].op = "configureScanRange" /\ aCalls[2].minDeg = Deg(0, -6)
  /\ Len(aProcessed) = 4 /\ aSim.config.minAngle = Num(-1)
  /\ aSim.config.maxAngle = Num(1000)
  /\ Len(aScans) >= 1 /\ aScans[Len(aScans)].after = 4
  /\ aScans[Len(aScans)].header.angleBegin = Num(-1)

\* C19: when the socket reports an error (connection refused or reset), the
\* promise connect() returned is rejected and every registered 'error'
\* listener is called; once the socket has closed the driver is not
\* connected and has emitted 'disconnected'.
C19_ErrorSurfaced ==
  /\ \A i \in 1..Len(aErrLog) :
       /\ aErrLog[i].promise = "rejected"
       /\ aErrLog[i].delivered = aListeners
       /\ ~aErrLog[i].thrown
  /\ aSock = "closed" => ~aConnected /\ aDisconnected >= 1

\* the sensor states of section 4.5
Scanning(s) == sims[s].scanInterval # 0
Idle(s) == sims[s].scanInterval = 0

Listeners(s) == {sims[s].sockets[i] : i \in 1..Len(sims[s].sockets)}

\* the commands sensor s processes in the step
NewCommands(s) == SubSeq(cmdLog'[s], Len(cmdLog[s]) + 1, Len(cmdLog'[s]))

C9_OneTimer ==
  \A s \in Sensors :
    /\ Cardinality(sims[s].timers) <= 1
    /\ Scanning(s) => sims[s].timers = {sims[s].scanInterval}
    /\ Idle(s) => sims[s].timers = {}

C9_StartStop ==
  \A s \in Sensors :
    LET new == NewCommands(s)
    IN /\ new # <<>> /\ new[Len(new)].command = SensorStart => Scanning(s)'
       /\ new # <<>> /\ new[Len(new)].command = SensorStop => Idle(s)'
       /\ Scanning(s)' # Scanning(s) =>
            \/ \E i \in 1..Len(new) : new[i].command \in {SensorStart, SensorStop}
            \/ sims'[s].sockets = <<>>

\* C9: every sensor starts Idle with no broadcast timer; processing a
\* SensorStart leaves it Scanning and processing a SensorStop leaves it Idle,
\* and nothing else but the loss of its last listener changes that state; at
\* most one broadcast timer is armed per sensor in every reachable state.
C9_SensorStateMachine ==
  /\ \A s \in Sensors : Idle(s) /\ sims[s].timers = {}
  /\ []C9_OneTimer
  /\ [][C9_StartStop]_vars

\* sensor 1 is Scanning on one timer after a SensorStart from each of two sockets
C9_Witness ==
  /\ Len(cmdLog[1]) = 2
  /\ cmdLog[1][1].command = SensorStart /\ cmdLog[1][2].command = SensorStart
  /\ cmdLog[1][1].conn # cmdLog[1][2].conn
  /\ Scanning(1) /\ Cardinality(sims[1].timers) = 1

\* C10: a closed connection is in no listener array, and a broadcast timer is
\* armed only while the listener array is not empty.
C10_ListenersAndTimer ==
  /\ \A c \in Conns : ~socks[c].open => \A s \in Sensors : c \notin Listeners(s)
  /\ \A s \in Sensors :
       Scanning(s) \/ sims[s].timers # {} => Listeners(s) # {}

\* sensor 1 was started and is Idle again because its only listener closed
C10_Witness ==
  /\ cmdLog[1] # <<>> /\ cmdLog[1][Len(cmdLog[1])].command = SensorStart
  /\ Listeners(1) = {} /\ Idle(1)
  /\ ~socks[cmdLog[1][Len(cmdLog[1])].conn].open

Last(q) == q[Len(q)]

\* the scan records among the frames written to a socket, and the acknowledgments
ScansOf(out) == SelectSeq(out, LAMBDA f : f.kind = "scan")
AcksOf(out) == SelectSeq(out, LAMBDA f : f.kind = "ack")

\* a timer of some sensor fires in the step
TickStep == ticks' # ticks

C11_Tick ==
  TickStep =>
    \E s \in Sensors :
      /\ Scanning(s)
      /\ Listeners(s) # {}
      /\ sims'[s].scanCounter = sims[s].scanCounter + 1
      /\ \E c0 \in Listeners(s) :
           LET h == Last(socks'[c0].out)
           IN /\ socks'[c0].out # <<>>
              /\ h.kind = "scan"
              /\ h.port = sims[s].port
              /\ h.scanCounter = sims'[s].scanCounter
              /\ \A c \in Conns :
                   /\ c \in Listeners(s) =>
                        /\ socks[c].open /\ socks[c].sensor = s
                        /\ socks'[c].out = Append(socks[c].out, h)
                   /\ c \notin Listeners(s) => socks'[c].out = socks[c].out

\* C11: when the broadcast timer of a Scanning sensor fires, one scan frame
\* is appended to the output of every connection of its listener array, the
\* same frame for all of them, and the output of every other connection
\* (closed ones included) is left as it was.
C11_BroadcastToListeners == [][C11_Tick]_vars

\* two listeners of sensor 1 hold the same scan frame, a third socket none
C11_Witness ==
  /\ Cardinality(Listeners(1)) = 2
  /\ \A c \in Listeners(1) :
       /\ Len(ScansOf(socks[c].out)) = 1
       /\ \A d \in Listeners(1) : ScansOf(socks[c].out) = ScansOf(socks[d].out)

\* sensor s writes a scan frame to some socket in the step
ScanWritten(s) ==
  \E c \in Conns :
    /\ Len(socks'[c].out) > Len(socks[c].out)
    /\ Last(socks'[c].out).kind = "scan"
    /\ Last(socks'[c].out).port = sims[s].port

\* C12: from the processing of a SensorStop, or from the disconnection of the
\* last listener, until a SensorStart is processed, the sensor writes no scan
\* frame.
C12_QuietAfterStop ==
  [][\A s \in Sensors : stopped[s] => ~ScanWritten(s)]_vars

\* sensor 1 broadcast to a listener, then processed a SensorStop, and the
\* listener is still connected
C12_Witness ==
  /\ stopped[1] /\ Listeners(1) # {}
  /\ cmdLog[1] # <<>> /\ Last(cmdLog[1]).command = SensorStop
  /\ \E c \in Listeners(1) : ScansOf(socks[c].out) # <<>>

\* the command name of a command string
NameOf(rawCmd) == Field(Split(rawCmd), 0)

\* the acknowledgment processCommand writes for a command string sent by
\* sendCommand
AckFor(rawCmd) ==
  IF NameOf(rawCmd) = LSScanDataConfig
    THEN createPacket(Join(<<sWA, LSScanDataConfig, One>>))
    ELSE createPacket(Join(<<sRA, NameOf(rawCmd), One>>))

C14_AcksInOrder ==
  \A c \in Conns :
    LET acks == AcksOf(socks[c].out)
    IN /\ Len(acks) <= Len(socks[c].cmds)
       /\ \A i \in 1..Len(acks) : acks[i].bytes = AckFor(socks[c].cmds[i])
       /\ socks[c].open /\ socks[c].inflight = <<>> => Len(acks) = Len(socks[c].cmds)

\* the last command of a sequence whose name is in `names` (<<>> when none)
LastIn(cmds, names) ==
  LET I == {i \in 1..Len(cmds) : NameOf(cmds[i]) \in names}
  IN IF I = {} THEN <<>> ELSE cmds[CHOOSE i \in I : \A j \in I : j <= i]

C14_EffectsInOrder ==
  \A c \in Conns :
    LET k   == Len(AcksOf(socks[c].out))
        k2  == Len(AcksOf(socks'[c].out))
        s   == socks[c].sensor
        new == SubSeq(socks[c].cmds, k + 1, k2)
        arm == LastIn(new, {SensorStart, SensorStop})
        wr  == LastIn(new, {LSScanDataConfig})
    IN socks[c].open /\ socks'[c].open /\ k2 > k =>
         /\ NewCommands(s) = [i \in 1..Len(new) |-> [conn |-> c, command |-> NameOf(new[i])]]
         /\ arm # <<>> => (Scanning(s)' <=> NameOf(arm) = SensorStart)
         /\ arm = <<>> => (Scanning(s)' <=> Scanning(s))
         /\ wr # <<>> =>
              sims'[s].config = [sims[s].config EXCEPT
                                   !.minAngle = Num(ClientWindow.startVal),
                                   !.maxAngle = Num(ClientWindow.endVal)]
         /\ wr = <<>> => sims'[s].config = sims[s].config

\* C14: on every connection the acknowledgments written are those of the
\* commands sent on it, in the order sent, all of them once every byte has
\* arrived; the commands a data event completes are processed in that order,
\* so that the sensor is left armed or disarmed by the last start or stop among
\* them and holds the window of the last write among them.
C14_PerConnectionOrder == []C14_AcksInOrder /\ [][C14_EffectsInOrder]_vars

\* a SensorStart and a SensorStop that arrived in one chunk were processed in
\* that order while another connection listens to the same sensor
C14_Witness ==
  \E c \in Conns :
    /\ socks[c].open /\ socks[c].sensor = 1
    /\ socks[c].cmds = <<SensorStart, SensorStop>>
    /\ Len(AcksOf(socks[c].out)) = 2 /\ ScansOf(socks[c].out) = <<>>
    /\ Idle(1) /\ Cardinality(Listeners(1)) = 2

\* the header values of a decoded record
HeaderValues(d) ==
  {d.scanCounter, d.scanFreq, d.measFreq, d.angleBegin, d.angleResol, d.amountOfData}

\* C21: a well-framed scan frame in which fewer than nine fields precede the
\* DIST1 token is dropped: every 'scan' event comes from a frame with at
\* least nine fields before DIST1, and no emitted record has a header value
\* that was read from a field position that does not exist.
C21_ShortHeaderDropped ==
  \A i \in 1..Len(kScans) :
    /\ kScans[i].distIndex >= 9
    /\ \A h \in HeaderValues(kScans[i].data) : ~h.nan

\* C22: the record decoded from a scan frame that carries the token RSSI1
\* followed by k hex fields holds the first min(amountOfData, k) of them in
\* rssi, as raw integers and in order; a record decoded from a frame without
\* the token has an empty rssi.
C22_RssiDecoded ==
  \A i \in 1..Len(kScans) :
    LET f == ScanFrames[i]
    IN kScans[i].data.rssi =
         IF f.origin = "rssi"
           THEN AsNums(SubSeq(f.rssi, 1, Min(f.amount, Len(f.rssi))))
           ELSE <<>>

\* the ranges the frame f carries for the record decoded from it
RangesOf(f) == AsNums(SubSeq(f.samples, 1, Min(f.amount, Len(f.samples))))

\* C23: one 'scan' event is emitted per decoded scan frame, in the order the
\* frames arrive, and after any sequence of scan events the record held by
\* the presentation layer's context is the most recently emitted one (null
\* before the first).
C23_LatestScanHeld ==
  /\ Len(kScans) <= Len(ScanFrames)
  /\ kPos = Len(kWire) => Len(kScans) = Len(ScanFrames)
  /\ \A i \in 1..Len(kScans) :
       ScanFrames[i].origin # "sim" => kScans[i].data.ranges = RangesOf(ScanFrames[i])
  /\ kCtx = IF kScans = <<>> THEN <<>> ELSE <<kScans[Len(kScans)].data>>

\* two frames with different contents were decoded, in two calls of
\* handleData, and the context holds the record of the second
C23_Witness ==
  /\ Len(kScans) = 2 /\ kPos = Len(kWire)
  /\ ScanFrames[1].origin = "peer" /\ ScanFrames[2].origin = "rssi"
  /\ kScans[1].data # kScans[2].data
  /\ kCtx = <<kScans[2].data>>

C24_Step ==
  /\ \A s \in Sensors : sims'[s].pose = sims[s].pose /\ sims[s].pose = SENSOR_CONFIGS[s]
  /\ \A c \in Conns :
       socks'[c] # socks[c] =>
         \A t \in Sensors \ {socks'[c].sensor} : sims'[t] = sims[t]
  /\ \A s, t \in Sensors : s # t => sims'[s] = sims[s] \/ sims'[t] = sims[t]

\* C24: a connection, disconnection, command or broadcast tick of one sensor
\* leaves every field of every other sensor (pose, window, listener array,
\* timer, scan counter) as it was, and no step changes the pose of a sensor.
C24_SensorsIndependent == [][C24_Step]_vars

\* sensor 1 took a window write and broadcast a frame while sensor 2, with a
\* listener of its own, is as it was constructed
C24_Witness ==
  /\ sims[1].config # DefaultConfig /\ sims[1].scanCounter >= 1 /\ Scanning(1)
  /\ Len(sims[2].sockets) = 1
  /\ sims[2] = handleConnection(NewSimulator(SENSOR_CONFIGS[2]), sims[2].sockets[1])

\* the scan frames written so far, over all sockets
AllScans == UNION {{socks[c].out[i] : i \in {j \in 1..Len(socks[c].out) :
                                              socks[c].out[j].kind = "scan"}} : c \in Conns}

C25_Step ==
  /\ globalPhase' # globalPhase =>
       /\ globalPhase' = globalPhase + PhaseStep
       /\ UNCHANGED <<sims, socks, cmdLog, stopped, sent, ticks>>
  /\ TickStep =>
       /\ globalPhase' = globalPhase
       /\ \A c \in Conns :
            Len(socks'[c].out) > Len(socks[c].out) =>
              Last(socks'[c].out).phase = globalPhase

\* C25: globalPhase changes only in a step of the global clock, by the same
\* increment each time, and that step is possible whatever the sensors are
\* doing; a broadcast places the obstacle at the phase of the moment and
\* leaves it as it was, so the frames broadcast between two clock ticks carry
\* the same phase.
C25_PhaseByClockOnly ==
  /\ [][C25_Step]_vars
  /\ [](globalPhase < MaxClock * PhaseStep => ENABLED ClockTick)
  /\ [](\A h \in AllScans : h.phase <= globalPhase /\ h.phase % PhaseStep = 0)

\* after one clock tick both sensors broadcast, and both frames carry the
\* phase of that tick
C25_Witness ==
  /\ globalPhase = PhaseStep
  /\ \E h1, h2 \in AllScans :
       /\ h1.port = sims[1].port /\ h2.port = sims[2].port
       /\ h1.phase = PhaseStep /\ h2.phase = PhaseStep

\* C26: two runs of the range computation on the same pose, ray and obstacle
\* position report the same sample.
C26_SameInputsSameSamples ==
  \A i, j \in 1..Len(rRuns) : rRuns[i].reported = rRuns[j].reported

\* the wall distance of a run, in millimetres, is above v
AboveMm(v, wall) == v * wall.den < 100 * wall.num

\* C27: on a ray where the obstacle is ahead (0 < proj), nearer than the
\* nearest wall hit and within its radius of the ray, the reported sample is
\* strictly less than the wall distance and differs from
\* proj - sqrt(r^2 - off^2) by no more than the noise amplitude (10 mm, and
\* the half millimetre of the rounding).
C27_ObstacleBeforeWall ==
  \A i \in 1..Len(rRuns) :
    LET run == rRuns[i]
        mm  == 100 \div UnitDen
        w   == mm * run.proj - run.reported
        chord == mm * mm * (objRadius * objRadius * UnitDen * UnitDen
                            - run.distToRay * run.distToRay)
    IN (/\ run.proj > 0
        /\ run.proj * run.wall.den < run.wall.num * UnitDen
        /\ run.distToRay < objRadius * UnitDen)
       => /\ run.obstacle
          /\ AboveMm(run.reported, run.wall)
          /\ w >= -10
          /\ 2 * w - 21 > 0 => (2 * w - 21) * (2 * w - 21) <= 4 * chord
          /\ (2 * w + 21) * (2 * w + 21) >= 4 * chord

\* a ray that passes the obstacle off its centre was cast with negative noise
C27_Witness ==
  /\ rRuns # <<>>
  /\ rRuns[1].obstacle /\ rRuns[1].distToRay > 0 /\ rRuns[1].noise = -10
  /\ rRuns[1].reported > 0

\* the valid hits of the ray on the walls it is not parallel to
ValidHits ==
  LET ws == walls(rPose)
  IN {wallTest(rDir, ws[k]).t :
        k \in {j \in 1..Len(ws) : Denom(rDir, ws[j]) # 0 /\ wallTest(rDir, ws[j]).hit}}

\* the direction of the ray in the frame of the room
RoomDir ==
  [p |-> rDir.p * CosDeg(rPose.rotation) - rDir.q * SinDeg(rPose.rotation),
   q |-> rDir.p * SinDeg(rPose.rotation) + rDir.q * CosDeg(rPose.rotation)]

\* the point at distance t on the ray lies on the boundary of the room
OnBoundary(t) ==
  LET scale == t.den * UnitDen
      gx == rPose.x * scale + t.num * RoomDir.p
      gy == rPose.y * scale + t.num * RoomDir.q
  IN /\ Abs(gx) <= wl * scale /\ Abs(gy) <= wl * scale
     /\ Abs(gx) = wl * scale \/ Abs(gy) = wl * scale

\* C28: a wall segment with denom = 0 is skipped before the divisions, the
\* run ends with a sample, and the wall distance is the least valid hit on the
\* other segments (the point where the ray leaves the room), or the sentinel
\* when there is none.
C28_ParallelWallSkipped ==
  \A i \in 1..Len(rRuns) :
    LET run == rRuns[i]
    IN /\ \A k \in 1..Len(walls(rPose)) :
            Denom(rDir, walls(rPose)[k]) = 0 => k \notin run.divided
       /\ run.reported \in Nat
       /\ IF ValidHits = {} THEN run.wall = MaxRange
          ELSE /\ run.wall \in ValidHits
               /\ \A h \in ValidHits : ~FracLess(h, run.wall)
               /\ FracLess(run.wall, MaxRange)
               /\ OnBoundary(run.wall)

\* a ray parallel to two walls was cast and hit one of the other two
C28_Witness ==
  /\ rRuns # <<>>
  /\ Cardinality({k \in 1..Len(walls(rPose)) : Denom(rDir, walls(rPose)[k]) = 0}) = 2
  /\ Cardinality(rRuns[1].divided) = 2
  /\ ~rRuns[1].obstacle
  /\ rRuns[1].wall \in ValidHits

C31_SampleRange ==
  \A i \in 1..Len(rRuns) :
    rRuns[i].reported \in 0..(100 * MaxRange.num + 10)

\* a sensor inside the circle of the obstacle, with the obstacle's centre
\* ahead of it, reported 0; the distance before the clamp was negative
C31_Witness ==
  /\ rRuns # <<>> /\ rPose \in OtherPoses
  /\ rRuns[1].obstacle /\ rRuns[1].reported = 0
  /\ (100 \div UnitDen) * rRuns[1].proj + rRuns[1].noise < objRadius * 100

\* the length digits of every scan frame the simulator wrote are the ones
\* ScanLengthField computes from the window it was built for
ScanLengthAgrees ==
  \A i \in 1..Len(kFrames) :
    kFrames[i].origin = "sim" =>
      SubSeq(kFrames[i].bytes, 2, 5) =
        ScanLengthField([minAngle |-> kFrames[i].minAngle,
                         maxAngle |-> kFrames[i].maxAngle,
                         resolution |-> kFrames[i].resolution])

\* C32: while the sensor is Scanning with a listener, the scan frame of its
\* next tick carries a length field of exactly 4 hexadecimal digits, for
\* every window a write command has set.
C32_LengthFieldFourDigits ==
  (cSim.scanInterval # 0 /\ cSim.sockets # <<>>) =>
    Len(ScanLengthField(cSim.config)) = 4

\* a start marker of the buffer that has an end marker somewhere after it
HoldsFrame(buffer) ==
  \E i \in 1..Len(buffer) : \E j \in (i + 1)..Len(buffer) :
    buffer[i] = STX /\ buffer[j] = ETX

\* C33: after every call of handleData and of the simulator's data handler the
\* retained buffer holds no complete frame: no start marker in it is followed
\* by an end marker.
C33_NoFrameRetained == ~HoldsFrame(drvBuffer) /\ ~HoldsFrame(simBuffer)

\* both sides have delivered a frame and retain the start of a next one
C33_Witness ==
  /\ drvPackets # <<>> /\ IndexOf(drvBuffer, STX, 0) # -1
  /\ simPackets # <<>> /\ IndexOf(simBuffer, STX, 0) # -1

\* the bytes the simulator has received on connection c: what the client
\* sent, without the bytes still in flight
ReceivedOn(c) ==
  LET wire == Concat([i \in 1..Len(socks[c].cmds) |-> sendCommandPacket(socks[c].cmds[i])])
  IN SubSeq(wire, 1, Len(wire) - Len(socks[c].inflight))

\* C34: the command frames extracted for a connection, and the bytes retained
\* for it, are those of that connection's bytes processed alone, whatever
\* arrived on the other connections in between.
C34_FramingPerConnection ==
  \A c \in Conns :
    socks[c].open =>
      /\ socks[c].got = onData(<<>>, ReceivedOn(c)).packets
      /\ socks[c].buffer = onData(<<>>, ReceivedOn(c)).buffer

\* two connections of one sensor: a frame of the first was completed while
\* the second holds the start of a frame
C34_Witness ==
  \E c, d \in Conns :
    /\ c # d /\ socks[c].open /\ socks[d].open
    /\ socks[c].sensor = socks[d].sensor
    /\ socks[c].got # <<>> /\ socks[c].buffer = <<>>
    /\ socks[d].buffer # <<>> /\ socks[d].got = <<>>

\* the scanCounter values of the scan frames written to a socket, in order
CountersOf(out) == [i \in 1..Len(ScansOf(out)) |-> ScansOf(out)[i].scanCounter]

\* a step changes a sensor's counter only by a tick that finds listeners, and
\* by exactly 1; every tick does so for some Scanning sensor
C35_Step ==
  /\ \A s \in Sensors :
       sims'[s].scanCounter # sims[s].scanCounter =>
         /\ TickStep /\ Scanning(s) /\ Listeners(s) # {}
         /\ sims'[s].scanCounter = sims[s].scanCounter + 1
  /\ TickStep =>
       \E s \in Sensors :
         /\ Scanning(s) /\ Listeners(s) # {}
         /\ sims'[s].scanCounter = sims[s].scanCounter + 1

\* on every connection, consecutive scan frames carry counters that differ by 1
C35_Consecutive ==
  \A c \in Conns :
    \A i \in 1..(Len(CountersOf(socks[c].out)) - 1) :
      CountersOf(socks[c].out)[i + 1] = CountersOf(socks[c].out)[i] + 1

\* C35: a sensor's scan counter increases by exactly 1 on each broadcast tick
\* that finds listeners and is changed by nothing else (no command, no
\* connect, no close), so the counters a listener receives are consecutive.
C35_CounterMonotone == [][C35_Step]_vars /\ []C35_Consecutive

\* a listener received two scan frames with an acknowledgment between them,
\* and a listener that joined later received the second frame only
C35_Witness ==
  \E c, d \in Conns :
    /\ c # d /\ socks[c].sensor = socks[d].sensor
    /\ CountersOf(socks[c].out) = <<1, 2>>
    /\ \E i, j, k \in 1..Len(socks[c].out) :
         /\ i < j /\ j < k
         /\ socks[c].out[i].kind = "scan" /\ socks[c].out[j].kind = "ack"
         /\ socks[c].out[k].kind = "scan"
    /\ CountersOf(socks[d].out) = <<2>>

\* a packet as processCommand receives it: 4 length digits, then the fields
PacketOf(fields) == Zero4 \o Comma \o Join(fields)

\* commands that must not change the window: a scan-window command with all
\* its arguments under a class other than sWC, a write with one argument or
\* none, and the other commands
NonWritePackets ==
  {PacketOf(<<class, LSScanDataConfig, drvToHex(Num(-900000)), drvToHex(Num(900000)),
              One, One, One>>) : class \in {sRC, sMC, sRA, sWA}}
  \cup {PacketOf(<<sWC, LSScanDataConfig>>),
        PacketOf(<<sWC, LSScanDataConfig, drvToHex(Num(-900000))>>),
        PacketOf(<<sMC, SensorStart>>), PacketOf(<<sMC, SensorStop>>),
        PacketOf(<<sMC, SetAccessLevel, Zero4>>), PacketOf(<<sRC, SensorScanInfo>>),
        PacketOf(<<sMC, LSDIConfig>>)}

\* the command received is a write of the window with both angles
FullWrite(parts) ==
  Field(parts, 2) = LSScanDataConfig /\ Field(parts, 1) = sWC /\ Len(parts) >= 5

\* C36: a scan-window write changes minAngle and maxAngle only, never the
\* resolution; a scan-window command of another class, a write with fewer
\* than two argument fields, SensorStart, SensorStop and every other command
\* leave the whole window as it was.
C36_WindowFrame ==
  /\ cSim.config.resolution = DefaultConfig.resolution
  /\ (\A i \in 1..Len(cParts) : ~FullWrite(cParts[i])) => cSim.config = DefaultConfig
  /\ \A packet \in NonWritePackets :
       processCommand(cSim, packet).sim.config = cSim.config

\* the sensor has processed a write that carries the start angle only
C36_Witness ==
  /\ cParts # <<>> /\ Len(cParts[1]) = 4
  /\ Field(cParts[1], 1) = sWC /\ Field(cParts[1], 2) = LSScanDataConfig
  /\ cSim.config = DefaultConfig

\* the connection has sent no SensorStart
NeverStarted(c) == \A i \in 1..Len(socks[c].cmds) : NameOf(socks[c].cmds[i]) # SensorStart

C37_Step ==
  \A s \in Sensors :
    LET new == NewCommands(s)
    IN \* a SensorStop or SensorStart of any connection sets the sensor's state
       /\ new # <<>> /\ Last(new).command = SensorStop => Idle(s)'
       /\ new # <<>> /\ Last(new).command = SensorStart => Scanning(s)'
       \* a new listener leaves the state as it is
       /\ Listeners(s) # Listeners(s)' /\ Listeners(s) \subseteq Listeners(s)' =>
            sims'[s].scanInterval = sims[s].scanInterval
       \* a tick of the sensor writes to every listener, whoever sent SensorStart
       /\ sims'[s].scanCounter # sims[s].scanCounter =>
            /\ Scanning(s)
            /\ \A c \in Listeners(s) :
                 /\ Len(socks'[c].out) = Len(socks[c].out) + 1
                 /\ Last(socks'[c].out).kind = "scan"
                 /\ Last(socks'[c].out).port = sims[s].port
       \* no listener of an Idle sensor gets a scan frame of it
       /\ Idle(s) =>
            \A c \in Listeners(s) :
              socks'[c].out # socks[c].out => Last(socks'[c].out).kind = "ack"

\* C37: scanning is a state of the sensor: a SensorStop or a SensorStart of
\* any one listener stops or starts the scan frames of all listeners, and a
\* listener that connects while the sensor is Scanning gets the frames of the
\* following ticks without having sent SensorStart.
C37_ScanningIsSensorState == [][C37_Step]_vars

\* a listener that sent nothing joined a sensor another listener had started,
\* after its first frame, and holds the second frame
C37_Witness ==
  \E c, d \in Conns :
    /\ c # d /\ socks[c].open /\ socks[d].open /\ socks[c].sensor = socks[d].sensor
    /\ ~NeverStarted(c)
    /\ socks[d].cmds = <<>> /\ socks[d].out # <<>>
    /\ Last(socks[d].out).kind = "scan" /\ Last(socks[d].out).scanCounter = 2
    /\ Len(ScansOf(socks[c].out)) = 2

\* C38: for every connection of the driver, the payloads handed to parsePacket
\* while it lasted are those that handleData yields from the bytes received
\* on that connection alone, starting from an empty buffer; bytes left from
\* an earlier connection are never joined with bytes of a later one.
C38_ConnectionIsolation ==
  \A k \in 1..Len(lRecv) :
    lPackets[k] = handleData(<<>>, lRecv[k]).packets

\* C39: the registry holds at most one context for every (ip, port) pair.
C39_OneContextPerAddress ==
  \A i, j \in 1..Len(sensors) :
    sensors[i].ip = sensors[j].ip /\ sensors[i].port = sensors[j].port => i = j

====
